---------------------------- MODULE Spec2Model ----------------------------
(***************************************************************************)
(* A model of the internal-coordinate engine of pts: the z-matrix atom     *)
(* line parser (ZMTAtom), the z-matrix build-up (ZMatrix), the CoordSys    *)
(* contract (ZMatrix, XYZ, ComplexCoordSys) and the process-wide metric    *)
(* context (metric.py).                                                    *)
(*                                                                         *)
(* Representation.  A Python string is a sequence of one-character         *)
(* strings.  A float is an exact value n * 0.1 * (pi/180)^e, written       *)
(* [n |-> n, e |-> e]: n counts tenths, e counts the multiplications by    *)
(* DEG_TO_RAD the value went through.  A Cartesian position is the term    *)
(* that get_cartesians computes it from (which reference positions and     *)
(* which resolved distance, angle and dihedral went into it).              *)
(***************************************************************************)
EXTENDS Integers, Sequences, FiniteSets, TLC

VARIABLES
    line,       \* parser: the text handed to ZMTAtom(astr)
    parsed,     \* parser: the ZMTAtom built from it, or the exception raised
    kind,       \* which CoordSys class the object under test is ("none" before)
    zmtatoms,   \* ZMatrix.zmtatoms, also indexed as zmtatoms_dict (ix = position)
    var_names,  \* ZMatrix.var_names
    zvars,      \* ZMatrix.vars: the variable table, name -> value
    coords,     \* CoordSys._coords, the internal coordinate vector
    dims,       \* CoordSys._dims (NoDims while the attribute does not exist)
    vectors,    \* atom.vector of every ZMTAtom (Unset while the attribute does not exist)
    positions,  \* positions held by the wrapped Atoms object
    cx,         \* the ComplexCoordSys instance: allocated?, its _parts
    call,       \* the last call made on the objects: operation, argument, outcome, return value
    metric,     \* metric.metric, the process-wide metric context
    mcall,      \* the last call made on the metric context
    df,         \* the call of derivatef under way: arguments, jobs of p_map, result
    bg,         \* the last call of B_globals: argument and the four matrices
    mt,         \* a vector taken through lower and raises of one metric at one place
    opt,        \* the call of minimize / lbfgs under way: iterate, history, counters
    cos,        \* the last call of read_zmt_from_string: text and the values returned
    gau         \* the Gaussian calculator: its attributes and the runs of the program

vars == <<line, parsed, kind, zmtatoms, var_names, zvars, coords, dims,
          vectors, positions, cx, call, metric, mcall, df, bg, mt, opt, cos, gau>>

-----------------------------------------------------------------------------
(* Bounds *)

\* longest atom line handed to the parser, in whitespace-separated fields
MaxFields == 8
\* components of the vectors handed to set_internals are 1..MaxVal (tenths)
MaxVal == 2
\* longest vector handed to set_internals, lower and raises
MaxLen == 3
\* most atom lines of a z-matrix text
MaxAtoms == 4

-----------------------------------------------------------------------------
(* Characters and strings *)

LowerLetters == <<"a", "d", "h", "o", "q", "r", "x">>
UpperLetters == <<"A", "D", "H", "O", "Q", "R", "X">>
Digits == <<"0", "1", "2", "3", "4", "5", "6", "7", "8", "9">>

Range(f) == {f[i] : i \in DOMAIN f}

IsSpace(ch) == ch \in {" ", "\t", "\n"}
IsDigit(ch) == ch \in Range(Digits)
IsWord(ch) == ch \in Range(LowerLetters) \cup Range(UpperLetters) \cup Range(Digits) \cup {"_"}

\* str.upper() and str.lower() on one character
UpperCh(ch) ==
    IF \E i \in DOMAIN LowerLetters : LowerLetters[i] = ch
    THEN UpperLetters[CHOOSE i \in DOMAIN LowerLetters : LowerLetters[i] = ch]
    ELSE ch
LowerCh(ch) ==
    IF \E i \in DOMAIN UpperLetters : UpperLetters[i] = ch
    THEN LowerLetters[CHOOSE i \in DOMAIN UpperLetters : UpperLetters[i] = ch]
    ELSE ch
Lower(s) == [i \in DOMAIN s |-> LowerCh(s[i])]

DigitVal(ch) == (CHOOSE i \in DOMAIN Digits : Digits[i] = ch) - 1

\* int(s) and the value of a digit string
RECURSIVE DigitsVal(_)
DigitsVal(s) ==
    IF s = <<>> THEN 0
    ELSE 10 * DigitsVal(SubSeq(s, 1, Len(s) - 1)) + DigitVal(s[Len(s)])

\* " ".join(fields)
RECURSIVE Join(_)
Join(fields) ==
    IF fields = <<>> THEN <<>>
    ELSE IF Len(fields) = 1 THEN fields[1]
    ELSE fields[1] \o <<" ">> \o Join(Tail(fields))

-----------------------------------------------------------------------------
(* Regular expressions: re.match of a sequence of greedy items, each a     *)
(* character class with a repetition range, some of them capture groups.   *)

InClass(cls, ch) ==
    CASE cls = "s" -> IsSpace(ch)
      [] cls = "S" -> ~IsSpace(ch)
      [] cls = "w" -> IsWord(ch)
      [] cls = "d" -> IsDigit(ch)
      [] cls = "sign" -> ch \in {"+", "-"}
      [] cls = "end" -> ch = "$"

\* an item: min..max characters of cls; max = 0 stands for no upper limit (* and +)
Item(cls, min, max, grp) == [cls |-> cls, min |-> min, max |-> max, grp |-> grp]
Star(cls) == Item(cls, 0, 0, FALSE)
Plus(cls) == Item(cls, 1, 0, FALSE)
Group(cls, min, max) == Item(cls, min, max, TRUE)

\* number of characters of s from pos on that are in cls, at most cap
RECURSIVE Run(_, _, _, _)
Run(cls, s, pos, cap) ==
    IF cap = 0 \/ pos > Len(s) \/ ~InClass(cls, s[pos]) THEN 0
    ELSE 1 + Run(cls, s, pos + 1, cap - 1)

NoMatch == [ok |-> FALSE, groups |-> <<>>, end |-> 0]

\* the match of items k.. of pat at pos, the first one in backtracking order
RECURSIVE MatchFrom(_, _, _, _), TryItem(_, _, _, _, _)
MatchFrom(pat, k, s, pos) ==
    IF k > Len(pat) THEN [ok |-> TRUE, groups |-> <<>>, end |-> pos]
    ELSE LET cap == IF pat[k].max = 0 THEN Len(s) ELSE pat[k].max
         IN  TryItem(pat, k, s, pos, Run(pat[k].cls, s, pos, cap))
TryItem(pat, k, s, pos, n) ==
    IF n < pat[k].min THEN NoMatch
    ELSE LET rest == MatchFrom(pat, k + 1, s, pos + n)
         IN  IF rest.ok
             THEN [ok |-> TRUE,
                   groups |-> IF pat[k].grp
                              THEN <<SubSeq(s, pos, pos + n - 1)>> \o rest.groups
                              ELSE rest.groups,
                   end |-> rest.end]
             ELSE TryItem(pat, k, s, pos, n - 1)

\* pat.match(s): anchored at the start of s only
ReMatch(pat, s) == MatchFrom(pat, 1, s, 1)

-----------------------------------------------------------------------------
(* Values *)

Val(n, e) == [n |-> n, e |-> e]
\* v * common.DEG_TO_RAD (0 * DEG_TO_RAD is 0)
DegToRad(v) == IF v.n = 0 THEN v ELSE Val(v.n, v.e + 1)
\* -1 * v
Neg(v) == Val(0 - v.n, v.e)

\* a distance, angle or dihedral field of a ZMTAtom: None, a float, or a str
NoneF == [t |-> "none", v |-> Val(0, 0), tok |-> <<>>]
NumF(v) == [t |-> "num", v |-> v, tok |-> <<>>]
StrF(tok) == [t |-> "str", v |-> Val(0, 0), tok |-> tok]

\* the None of the reference indices a, b, c (which int() makes >= 0)
NoneIx == 0 - 1

\* float(s) for s over digits, sign and dot, in tenths; more than one
\* fractional digit is beyond the model's precision and is cut
FloatOf(s, signed, body, ni, hasdot, nf) ==
    IF ~(ni + nf >= 1 /\ ni + (IF hasdot THEN 1 ELSE 0) + nf = Len(body))
    THEN [ok |-> FALSE, v |-> Val(0, 0)]
    ELSE [ok |-> TRUE,
          v |-> Val((IF signed /\ s[1] = "-" THEN 0 - 1 ELSE 1)
                    * (10 * DigitsVal(SubSeq(body, 1, ni))
                       + (IF nf >= 1 THEN DigitVal(body[ni + 2]) ELSE 0)), 0)]
FloatBody(s, signed, body, ni) ==
    FloatOf(s, signed, body, ni, ni < Len(body) /\ body[ni + 1] = ".",
            IF ni < Len(body) /\ body[ni + 1] = "."
            THEN Run("d", body, ni + 2, Len(body)) ELSE 0)
FloatSigned(s, signed) ==
    FloatBody(s, signed, IF signed THEN Tail(s) ELSE s,
              Run("d", IF signed THEN Tail(s) ELSE s, 1, Len(s)))
Float(s) == FloatSigned(s, s # <<>> /\ s[1] \in {"+", "-"})

-----------------------------------------------------------------------------
(* ZMTAtom: one z-matrix atom line *)

a1 == <<Star("s"), Group("w", 1, 2), Star("s")>>
a2 == <<Star("s"), Group("w", 1, 2), Plus("s"), Group("d", 1, 0), Plus("s"),
        Group("S", 1, 0), Star("s")>>
a3 == <<Star("s"), Group("w", 1, 2), Plus("s"), Group("d", 1, 0), Plus("s"),
        Group("S", 1, 0), Plus("s"), Group("d", 1, 0), Plus("s"),
        Group("S", 1, 0), Star("s")>>
aRest == <<Star("s"), Group("w", 1, 2), Plus("s"), Group("d", 1, 0), Plus("s"),
           Group("S", 1, 0), Plus("s"), Group("d", 1, 0), Plus("s"),
           Group("S", 1, 0), Plus("s"), Group("d", 1, 0), Plus("s"),
           Group("S", 1, 0), Star("s")>>
patterns == <<aRest, a3, a2, a1>>

\* the leading part of r"[+-]?\d+(\.\d+)?" that decides whether re.match succeeds
numeric == <<Item("sign", 0, 1, FALSE), Plus("d")>>

\* ZMTAtom.__process: a float if the token starts like a number, else the token
Processed(f, isangle) ==
    IF ~f.ok THEN [ok |-> FALSE, f |-> NoneF]
    ELSE [ok |-> TRUE, f |-> NumF(IF isangle THEN DegToRad(f.v) ELSE f.v)]
process(varstr, isangle) ==
    IF ReMatch(numeric, varstr).ok
    THEN Processed(Float(varstr), isangle)
    ELSE [ok |-> TRUE, f |-> StrF(varstr)]

NoAtom(err) ==
    [ok |-> FALSE, err |-> err, name |-> <<>>, a |-> NoneIx, b |-> NoneIx,
     c |-> NoneIx, dst |-> NoneF, ang |-> NoneF, dih |-> NoneF]

\* the groups of the first pattern of patterns[k..] that matches astr
RECURSIVE FirstMatch(_, _)
FirstOr(m, astr, k) == IF m.ok THEN m ELSE FirstMatch(astr, k + 1)
FirstMatch(astr, k) ==
    IF k > Len(patterns) THEN NoMatch
    ELSE FirstOr(ReMatch(patterns[k], astr), astr, k)

\* the assignments of lines 123-134 from the groups g, n of them
AtomWith(g, n, dst, ang, dih) ==
    IF ~(dst.ok /\ ang.ok /\ dih.ok) THEN NoAtom("ValueError")
    ELSE [ok |-> TRUE, err |-> "",
          name |-> <<UpperCh(g[1][1])>> \o Tail(g[1]),
          a |-> IF n >= 3 THEN DigitsVal(g[2]) ELSE NoneIx,
          b |-> IF n >= 5 THEN DigitsVal(g[4]) ELSE NoneIx,
          c |-> IF n = 7 THEN DigitsVal(g[6]) ELSE NoneIx,
          dst |-> dst.f, ang |-> ang.f, dih |-> dih.f]
AtomFrom(g, n) ==
    AtomWith(g, n,
             IF n >= 3 THEN process(g[3], FALSE) ELSE [ok |-> TRUE, f |-> NoneF],
             IF n >= 5 THEN process(g[5], TRUE) ELSE [ok |-> TRUE, f |-> NoneF],
             IF n = 7 THEN process(g[7], TRUE) ELSE [ok |-> TRUE, f |-> NoneF])
AtomOf(m) == IF ~m.ok THEN NoAtom("Exception") ELSE AtomFrom(m.groups, Len(m.groups))

\* ZMTAtom.__init__(astr): the atom, or the exception raised
ZMTAtom(astr) == AtomOf(FirstMatch(astr, 1))

\* ZMTAtom.not_dummy
not_dummy(atom) == Lower(atom.name) \notin {<<"x">>, <<"x", "x">>}

\* the variable name of a str field: the token without a leading "-"
VarName(tok) == IF tok[1] = "-" THEN Tail(tok) ELSE tok

\* ZMTAtom.all_vars
StrNames(strs) == [i \in DOMAIN strs |-> VarName(strs[i].tok)]
\* all_vars that passes over the fields written with a sign
all_vars_unsigned(atom) ==
    StrNames(SelectSeq(<<atom.dst, atom.ang, atom.dih>>,
                       LAMBDA f : f.t = "str" /\ f.tok[1] # "-"))
all_vars(atom) ==
    StrNames(SelectSeq(<<atom.dst, atom.ang, atom.dih>>, LAMBDA f : f.t = "str"))

-----------------------------------------------------------------------------
(* Positions, as the terms get_cartesians builds *)

Unset == [k |-> "unset"]
\* numpy.zeros(3)
Zeros == [k |-> "zeros"]
\* numpy.array((dst, 0.0, 0.0))
OnX(dst) == [k |-> "x", dst |-> dst]
\* common.VY, the fixed axis standing in for the third reference of atom 3
VY == [k |-> "VY"]
\* avec + v3 - v1 of lines 359-374, a function of the three reference positions
\* and of the resolved distance, angle and dihedral
Placed(avec, bvec, cvec, dst, ang, dih) ==
    [k |-> "placed", a |-> avec, b |-> bvec, c |-> cvec,
     dst |-> dst, ang |-> ang, dih |-> dih]

\* 90. * common.DEG_TO_RAD
RightAngle == DegToRad(Val(900, 0))

-----------------------------------------------------------------------------
(* ZMatrix *)

\* the table's value for a name: KeyError when the table has no such name
Lookup(table, name, sign) ==
    IF name \notin DOMAIN table THEN [ok |-> FALSE, v |-> Val(0, 0)]
    ELSE [ok |-> TRUE, v |-> IF sign < 0 THEN Neg(table[name]) ELSE table[name]]

\* ZMatrix.get_var: a float as it is, a str looked up in the table, negated
\* when it starts with "-"
\* get_var that drops the sign of a negated reference
get_var_nosign(table, f) ==
    IF f.t = "str"
    THEN IF f.tok[1] = "-"
         THEN Lookup(table, Tail(f.tok), 1)
         ELSE Lookup(table, f.tok, 1)
    ELSE [ok |-> TRUE, v |-> f.v]
get_var(table, f) ==
    IF f.t = "str"
    THEN IF f.tok[1] = "-"
         THEN Lookup(table, Tail(f.tok), 0 - 1)
         ELSE Lookup(table, f.tok, 1)
    ELSE [ok |-> TRUE, v |-> f.v]

\* zmtatoms_dict[ix].vector if every atom were created with a vector of zeros
RefVector_zeroed(vec, ix) ==
    IF ix \notin DOMAIN vec THEN [err |-> "KeyError", vec |-> Unset]
    ELSE IF vec[ix] = Unset THEN [err |-> "", vec |-> Zeros]
    ELSE [err |-> "", vec |-> vec[ix]]
\* zmtatoms_dict[ix].vector: KeyError without such an atom, AttributeError
\* while that atom has no vector yet
RefVector(vec, ix) ==
    IF ix \notin DOMAIN vec THEN [err |-> "KeyError", vec |-> Unset]
    ELSE IF vec[ix] = Unset THEN [err |-> "AttributeError", vec |-> Unset]
    ELSE [err |-> "", vec |-> vec[ix]]

\* one pass of the loop of get_cartesians (lines 334-376): the position given
\* to the atom, or the exception its references raise
PlaceWith(atom, av, dst, bv, ang, cv, dih) ==
    IF atom.a = NoneIx THEN [err |-> "", vec |-> Zeros]
    ELSE IF av.err # "" THEN av
    ELSE IF ~dst.ok THEN [err |-> "KeyError", vec |-> Unset]
    ELSE IF atom.b = NoneIx THEN [err |-> "", vec |-> OnX(dst.v)]
    ELSE IF bv.err # "" THEN bv
    ELSE IF ~ang.ok THEN [err |-> "KeyError", vec |-> Unset]
    ELSE IF atom.c = NoneIx
         THEN [err |-> "", vec |-> Placed(av.vec, bv.vec, VY, dst.v, ang.v, RightAngle)]
    ELSE IF cv.err # "" THEN cv
    ELSE IF ~dih.ok THEN [err |-> "KeyError", vec |-> Unset]
    ELSE [err |-> "", vec |-> Placed(av.vec, bv.vec, cv.vec, dst.v, ang.v, dih.v)]
PlaceAtom(atom, table, vec) ==
    PlaceWith(atom, RefVector(vec, atom.a), get_var(table, atom.dst),
              RefVector(vec, atom.b), get_var(table, atom.ang),
              RefVector(vec, atom.c), get_var(table, atom.dih))

\* the loop of get_cartesians from atom k on: vec are the atoms' vector
\* attributes, xyz the rows collected so far
RECURSIVE BuildFrom(_, _, _, _, _)
\* the loop body that collects the row of every atom, dummy or not
BuildStep_alldummies(atoms, table, k, vec, xyz, p) ==
    IF p.err # "" THEN [err |-> p.err, vectors |-> vec, xyz |-> xyz]
    ELSE BuildFrom(atoms, table, k + 1, [vec EXCEPT ![k] = p.vec], Append(xyz, p.vec))
BuildStep(atoms, table, k, vec, xyz, p) ==
    IF p.err # "" THEN [err |-> p.err, vectors |-> vec, xyz |-> xyz]
    ELSE BuildFrom(atoms, table, k + 1, [vec EXCEPT ![k] = p.vec],
                   IF not_dummy(atoms[k]) THEN Append(xyz, p.vec) ELSE xyz)
BuildFrom(atoms, table, k, vec, xyz) ==
    IF k > Len(atoms) THEN [err |-> "", vectors |-> vec, xyz |-> xyz]
    ELSE BuildStep(atoms, table, k, vec, xyz, PlaceAtom(atoms[k], table, vec))

\* ZMatrix.get_cartesians
ZMatrix_get_cartesians(atoms, table, vec) == BuildFrom(atoms, table, 1, vec, <<>>)

\* ZMTAtom.dih_var: the name of the dihedral variable, <<>> for None
dih_var(atom) == IF atom.dih.t = "str" THEN VarName(atom.dih.tok) ELSE <<>>

\* the keys of self.angles that are strings (lines 244-251): the dihedral
\* variable names and the angle fields as written
AngleKeys(atoms) ==
    {dih_var(atoms[i]) : i \in {j \in DOMAIN atoms : atoms[j].dih.t = "str"}}
    \cup {atoms[i].ang.tok : i \in {j \in DOMAIN atoms : atoms[j].ang.t = "str"}}

\* ZMatrix.matches on a text given line by line: a name, then a 3-field, then
\* a 5-field line, then 7-field lines, and at least one variable line
FullMatch(pat, s) == ReMatch(pat \o <<Item("end", 1, 1, FALSE)>>, s \o <<"$">>).ok
LinePattern(i) == IF i = 1 THEN a1 ELSE IF i = 2 THEN a2 ELSE IF i = 3 THEN a3 ELSE aRest
matches(mol_text) ==
    /\ mol_text.lines # <<>>
    /\ \A i \in DOMAIN mol_text.lines : FullMatch(LinePattern(i), mol_text.lines[i])
    /\ mol_text.vars # <<>>

\* the atoms of lines[1..k], or the exception of the first line that has one
RECURSIVE ParseLines(_, _)
ParseNext(before, atom) ==
    IF before.err # "" THEN before
    ELSE IF ~atom.ok THEN [err |-> atom.err, atoms |-> before.atoms]
    ELSE [err |-> "", atoms |-> Append(before.atoms, atom)]
ParseLines(lines, k) ==
    IF k = 0 THEN [err |-> "", atoms |-> <<>>]
    ELSE ParseNext(ParseLines(lines, k - 1), ZMTAtom(lines[k]))

\* concatenation of all_vars over the atoms (zmt_ordered_vars)
RECURSIVE OrderedVars(_)
OrderedVars(atoms) ==
    IF atoms = <<>> THEN <<>>
    ELSE OrderedVars(SubSeq(atoms, 1, Len(atoms) - 1)) \o all_vars(atoms[Len(atoms)])

\* the table after "for i, var in zip(values, names): vars[var] = i"
LastOf(names, n, key) ==
    CHOOSE i \in 1..n : names[i] = key /\ \A j \in 1..n : names[j] = key => j <= i
AssignFirst(table, names, values, n) ==
    [key \in DOMAIN table \cup {names[i] : i \in 1..n} |->
        IF \E i \in 1..n : names[i] = key
        THEN values[LastOf(names, n, key)] ELSE table[key]]
Assign(table, names, values) ==
    AssignFirst(table, names, values,
                IF Len(names) < Len(values) THEN Len(names) ELSE Len(values))

NoDims == 0 - 1
NoCall == [op |-> "", arg |-> <<>>, outcome |-> "", ret |-> <<>>]
Call(op, arg, outcome, ret) == [op |-> op, arg |-> arg, outcome |-> outcome, ret |-> ret]

\* an object none of whose attributes exists yet
NoObject ==
    [err |-> "", zmtatoms |-> <<>>, var_names |-> <<>>, zvars |-> <<>>,
     coords |-> <<>>, dims |-> NoDims, vectors |-> <<>>, positions |-> <<>>]

\* CoordSys.__init__: _dims and the Atoms object (positions as handed over)
CoordSys_init(obj, atom_xyzs, abstract_coords) ==
    [obj EXCEPT !.dims = Len(abstract_coords), !.positions = atom_xyzs]

\* ZMatrix.__init__, lines 281-285: the first build-up, then CoordSys.__init__
ZMatrix_built(obj, built) ==
    IF built.err # "" THEN [obj EXCEPT !.err = built.err, !.vectors = built.vectors]
    ELSE CoordSys_init([obj EXCEPT !.vectors = built.vectors], built.xyz, obj.coords)

\* ZMatrix.__init__, lines 271-277: every variable the atoms use is in the table
ZMatrix_checked(obj, ordered) ==
    IF \E i \in DOMAIN ordered : ordered[i] \notin DOMAIN obj.zvars
    THEN [obj EXCEPT !.err = "ZMatrixException"]
    ELSE ZMatrix_built(obj, ZMatrix_get_cartesians(obj.zmtatoms, obj.zvars, obj.vectors))

\* ZMatrix.__init__, lines 263-269: angles to radians, and the table
ZMatrix_table(obj, c) ==
    ZMatrix_checked([obj EXCEPT !.coords = c, !.zvars = Assign(<<>>, obj.var_names, c)],
                    OrderedVars(obj.zmtatoms))
ZMatrix_angles(obj, angles) ==
    ZMatrix_table(obj, [i \in DOMAIN obj.coords |->
                           IF obj.var_names[i] \in angles
                           THEN DegToRad(obj.coords[i]) ELSE obj.coords[i]])

\* ZMatrix.__init__, lines 235-239: the atoms of the lines
ZMatrix_atoms(obj, p) ==
    IF p.err # ""
    THEN [obj EXCEPT !.err = p.err, !.zmtatoms = p.atoms,
                     !.vectors = [i \in DOMAIN p.atoms |-> Unset]]
    ELSE ZMatrix_angles([obj EXCEPT !.zmtatoms = p.atoms,
                                    !.vectors = [i \in DOMAIN p.atoms |-> Unset]],
                        AngleKeys(p.atoms))

\* ZMatrix.__init__(mol_text): the object's attributes when it returns or raises
ZMatrix_init(mol_text) ==
    IF ~matches(mol_text) THEN [NoObject EXCEPT !.err = "ZMatrixException"]
    ELSE ZMatrix_atoms(
            [NoObject EXCEPT
                !.var_names = [i \in DOMAIN mol_text.vars |-> mol_text.vars[i].name],
                !.coords = [i \in DOMAIN mol_text.vars |-> mol_text.vars[i].value]],
            ParseLines(mol_text.lines, Len(mol_text.lines)))

-----------------------------------------------------------------------------
(* CoordSys, XYZ, ComplexCoordSys *)

\* common.make_like_atoms: the array as rows of three
make_like_atoms(k, carts) ==
    IF k = "XYZ"
    THEN [i \in 1..(Len(carts) \div 3) |-> <<carts[3 * i - 2], carts[3 * i - 1], carts[3 * i]>>]
    ELSE carts

\* XYZ.__init__(molstr): the coordinates found in the text, flat
XYZ_init(molstr) ==
    CoordSys_init([NoObject EXCEPT !.coords = molstr.coords],
                  make_like_atoms("XYZ", molstr.coords), molstr.coords)

\* get_cartesians of an object of class k: XYZ returns self._coords
get_cartesians(k, obj) ==
    IF k = "XYZ" THEN [err |-> "", vectors |-> obj.vectors, xyz |-> obj.coords]
    ELSE ZMatrix_get_cartesians(obj.zmtatoms, obj.zvars, obj.vectors)

\* CoordSys.set_internals, lines 36-38: the Cartesians go to the Atoms object
CoordSys_set_positions(k, obj, built) ==
    IF built.err # "" THEN [obj EXCEPT !.err = built.err, !.vectors = built.vectors]
    ELSE [obj EXCEPT !.err = "", !.vectors = built.vectors,
                     !.positions = make_like_atoms(k, built.xyz)]

\* set_internals without the length assertion
CoordSys_set_internals_unchecked(k, obj, x) ==
    CoordSys_set_positions(k, [obj EXCEPT !.coords = x],
                           get_cartesians(k, [obj EXCEPT !.coords = x]))
\* set_internals that asserts the length after storing x
CoordSys_set_internals_late(k, obj, x) ==
    IF Len(x) # Len(obj.coords) THEN [obj EXCEPT !.err = "AssertionError", !.coords = x]
    ELSE CoordSys_set_positions(k, [obj EXCEPT !.coords = x],
                                get_cartesians(k, [obj EXCEPT !.coords = x]))
\* CoordSys.set_internals(x) on an object of class k
CoordSys_set_internals(k, obj, x) ==
    IF Len(x) # Len(obj.coords) THEN [obj EXCEPT !.err = "AssertionError"]
    ELSE CoordSys_set_positions(k, [obj EXCEPT !.coords = x],
                                get_cartesians(k, [obj EXCEPT !.coords = x]))

\* set_internals that leaves the table of variables as it was
ZMatrix_set_vars_stale(obj, internals) == obj
\* ZMatrix.set_internals, lines 322-323: the table takes the new values
ZMatrix_set_vars(obj, internals) ==
    IF obj.err # "" THEN obj
    ELSE [obj EXCEPT !.zvars = Assign(obj.zvars, obj.var_names, internals)]

\* ZMatrix.set_internals(internals)
ZMatrix_set_internals(obj, internals) ==
    ZMatrix_set_vars(CoordSys_set_internals("ZMatrix", obj, internals), internals)

\* obj.set_internals(x), by the class of obj
set_internals(k, obj, x) ==
    IF k = "ZMatrix" THEN ZMatrix_set_internals(obj, x)
    ELSE CoordSys_set_internals(k, obj, x)

\* CoordSys.get_internals
get_internals(obj) == obj.coords

\* CoordSys.copy, which ZMatrix inherits: assert False, "Abstract function"
CoordSys_copy(obj, new_coords) == [err |-> "AssertionError", internals |-> <<>>]

\* XYZ.copy: its first statement calls deepcopy, a name the module neither
\* defines nor imports
XYZ_copy(obj, new_coords) == [err |-> "NameError", internals |-> <<>>]

\* obj.copy(new_coords), by the class of obj: the exception, or the internal
\* coordinates the new object holds
copy(k, obj, new_coords) ==
    IF k = "XYZ" THEN XYZ_copy(obj, new_coords) ELSE CoordSys_copy(obj, new_coords)

\* ComplexCoordSys.__init__(sub_parts): _parts is bound, then self._coords is
\* read before anything has bound it
ComplexCoordSys_init(sub_parts) ==
    [err |-> "AttributeError", alloc |-> TRUE, parts |-> sub_parts]

\* ComplexCoordSys.set_internals(x): the first statement reads the name
\* internals, which nothing binds; no fragment is reached
ComplexCoordSys_set_internals(c, obj, x) ==
    [obj EXCEPT !.err = "NameError"]

-----------------------------------------------------------------------------
(* Inputs *)

Vals == {Val(n, 0) : n \in 1..MaxVal}
\* every vector of at most MaxLen components
Vectors == UNION {[1..n -> Vals] : n \in 0..MaxLen}
\* the vectors handed to set_internals of an object of d dimensions: of d
\* components the vectors of one value and the vector 1, 2, ... of differing
\* values, and one vector of every other length
Ramp(d) == [i \in 1..d |-> Val(((i - 1) % MaxVal) + 1, 0)]
Xs(d) ==
    {[i \in 1..d |-> v] : v \in Vals} \cup {Ramp(d)}
        \cup {[i \in 1..n |-> Val(1, 0)] : n \in 0..MaxLen}
\* the vectors handed to set_internals of the composite over d dimensions
ComplexXs(d) == {[i \in 1..d |-> v] : v \in Vals}
\* the places handed to lower and raises
Places == {[i \in 1..MaxLen |-> v] : v \in Vals}

\* the atom lines offered at line i of a z-matrix text
LineMenu(i) ==
    IF i = 1 THEN {<<"H">>, <<"X">>}
    ELSE IF i = 2
    THEN {Join(<< <<"O">>, <<"1">>, <<"r">> >>),
          Join(<< <<"X", "2">>, <<"1">>, <<"-", "r">> >>),
          Join(<< <<"x">>, <<"1">>, <<"2">> >>),
          Join(<< <<"O">>, <<"2">>, <<"r">> >>),
          Join(<< <<"O">>, <<"0">>, <<"r">> >>)}
    ELSE IF i = 3
    THEN {Join(<< <<"H">>, <<"2">>, <<"r">>, <<"1">>, <<"a">> >>),
          Join(<< <<"H">>, <<"2">>, <<"r">>, <<"4">>, <<"a">> >>),
          Join(<< <<"H">>, <<"2">>, <<"2">>, <<"1">>, <<"-", "a">> >>)}
    ELSE IF i = 4
    THEN {Join(<< <<"H">>, <<"3">>, <<"r">>, <<"2">>, <<"a">>, <<"1">>, <<"-", "a">> >>),
          Join(<< <<"H">>, <<"3">>, <<"q">>, <<"2">>, <<"9", "0">>, <<"1">>, <<"a">> >>)}
    ELSE {Join(<< <<"H">>, <<"3">>, <<"r">>, <<"2">>, <<"a">>, <<"1">>, <<"-", "a">> >>)}

RECURSIVE LineSeqs(_)
LineSeqs(n) ==
    IF n = 0 THEN {<<>>}
    ELSE {Append(p, l) : p \in LineSeqs(n - 1), l \in LineMenu(n)}

VarLine(name, n) == [name |-> name, value |-> Val(n, 0)]
\* the variable sections offered: none, r = 1.0, and r = 1.0 with a = 90.0
VarSections ==
    {<<>>, <<VarLine(<<"r">>, 10)>>, <<VarLine(<<"r">>, 10), VarLine(<<"a">>, 900)>>}

ZMatrixTexts ==
    {[lines |-> l, vars |-> v] :
        l \in UNION {LineSeqs(n) : n \in 1..MaxAtoms}, v \in VarSections}

\* one-atom XYZ texts
XYZTexts == {[symbols |-> << <<"H">> >>, coords |-> c] : c \in [1..3 -> Vals]}

-----------------------------------------------------------------------------
(* The objects *)

NoComplex == [alloc |-> FALSE, parts |-> <<>>]
\* no call of derivatef, no call of B_globals yet
NoDeriv == [stage |-> "idle"]
NoGlobals == [stage |-> "idle"]
Idle == [stage |-> "idle"]

Init ==
    /\ line = <<>>
    /\ parsed = NoAtom("")
    /\ kind = "none"
    /\ zmtatoms = <<>>
    /\ var_names = <<>>
    /\ zvars = <<>>
    /\ coords = <<>>
    /\ dims = NoDims
    /\ vectors = <<>>
    /\ positions = <<>>
    /\ cx = NoComplex
    /\ call = NoCall
    /\ metric = "No_metric"
    /\ mcall = NoCall
    /\ df = NoDeriv
    /\ bg = NoGlobals
    /\ mt = Idle
    /\ opt = Idle
    /\ cos = Idle
    /\ gau = Idle

\* the attributes of the object under test
Self ==
    [err |-> "", zmtatoms |-> zmtatoms, var_names |-> var_names, zvars |-> zvars,
     coords |-> coords, dims |-> dims, vectors |-> vectors, positions |-> positions]

\* the object's attributes become those of obj
Store(obj) ==
    /\ zmtatoms' = obj.zmtatoms
    /\ var_names' = obj.var_names
    /\ zvars' = obj.zvars
    /\ coords' = obj.coords
    /\ dims' = obj.dims
    /\ vectors' = obj.vectors
    /\ positions' = obj.positions

\* __init__ has returned: the object is there to be used
Constructed == kind # "none" /\ dims # NoDims

Constructs(k, arg, obj) ==
    /\ kind' = k
    /\ Store(obj)
    /\ call' = Call(k, arg, obj.err, <<>>)

\* z = ZMatrix(mol_text)
NewZMatrix ==
    /\ kind = "none"
    /\ \E mol_text \in ZMatrixTexts : Constructs("ZMatrix", mol_text, ZMatrix_init(mol_text))
    /\ UNCHANGED <<line, parsed, cx, metric, mcall, df, bg, mt, opt, cos, gau>>

\* xyz = XYZ(molstr)
NewXYZ ==
    /\ kind = "none"
    /\ \E molstr \in XYZTexts : Constructs("XYZ", molstr, XYZ_init(molstr))
    /\ UNCHANGED <<line, parsed, cx, metric, mcall, df, bg, mt, opt, cos, gau>>

Returns(op, arg, obj, ret) ==
    /\ Store(obj)
    /\ call' = Call(op, arg, obj.err, ret)

\* obj.set_internals(x)
SetInternals ==
    /\ Constructed
    /\ \E x \in Xs(dims) : Returns("set_internals", x, set_internals(kind, Self, x), <<>>)
    /\ UNCHANGED <<line, parsed, kind, cx, metric, mcall, df, bg, mt, opt, cos, gau>>

\* obj.get_internals()
GetInternals ==
    /\ Constructed
    /\ Returns("get_internals", <<>>, Self, get_internals(Self))
    /\ UNCHANGED <<line, parsed, kind, cx, metric, mcall, df, bg, mt, opt, cos, gau>>

GotCartesians(built) ==
    Returns("get_cartesians", <<>>,
            [Self EXCEPT !.err = built.err, !.vectors = built.vectors], built.xyz)

\* obj.get_cartesians()
GetCartesians ==
    /\ Constructed
    /\ GotCartesians(get_cartesians(kind, Self))
    /\ UNCHANGED <<line, parsed, kind, cx, metric, mcall, df, bg, mt, opt, cos, gau>>

\* the new_coords handed to copy: None, or a vector of dims components
NewCoords(d) == {[given |-> FALSE, x |-> <<>>], [given |-> TRUE, x |-> Ramp(d)]}

Copied(new_coords, r) ==
    Returns("copy", new_coords, [Self EXCEPT !.err = r.err], r.internals)

\* new = obj.copy(new_coords)
Copy ==
    /\ Constructed
    /\ \E new_coords \in NewCoords(dims) : Copied(new_coords, copy(kind, Self, new_coords))
    /\ UNCHANGED <<line, parsed, kind, cx, metric, mcall, df, bg, mt, opt, cos, gau>>

ComplexConstructs(sub_parts, r) ==
    /\ cx' = [alloc |-> r.alloc, parts |-> r.parts]
    /\ call' = Call("ComplexCoordSys", sub_parts, r.err, <<>>)

\* c = ComplexCoordSys([obj])
NewComplex ==
    /\ Constructed
    /\ ~cx.alloc
    /\ ComplexConstructs(<<kind>>, ComplexCoordSys_init(<<kind>>))
    /\ UNCHANGED <<line, parsed, kind, zmtatoms, var_names, zvars, coords, dims,
                   vectors, positions, metric, mcall, df, bg, mt, opt, cos, gau>>

\* ComplexCoordSys.set_internals(x) on the instance that __init__ left behind
ComplexSetInternals ==
    /\ cx.alloc
    /\ \E x \in ComplexXs(dims) :
        Returns("Complex.set_internals", x, ComplexCoordSys_set_internals(cx, Self, x), <<>>)
    /\ UNCHANGED <<line, parsed, kind, cx, metric, mcall, df, bg, mt, opt, cos, gau>>

Next ==
    \/ NewZMatrix
    \/ NewXYZ
    \/ SetInternals
    \/ GetInternals
    \/ GetCartesians
    \/ Copy
    \/ NewComplex
    \/ ComplexSetInternals

Spec == Init /\ [][Next]_vars

-----------------------------------------------------------------------------
(* The parser alone: ZMTAtom(astr) on the lines of at most MaxFields fields *)

ParseTokens == {<<"H">>, <<"1">>, <<"-", "r">>}

RECURSIVE FieldSeqs(_)
FieldSeqs(n) ==
    IF n = 0 THEN {<<>>}
    ELSE {Append(p, t) : p \in FieldSeqs(n - 1), t \in ParseTokens}

ParseInputs == {Join(fs) : fs \in UNION {FieldSeqs(n) : n \in 0..MaxFields}}

InitParse ==
    /\ line \in ParseInputs
    /\ parsed = NoAtom("")
    /\ kind = "none"
    /\ zmtatoms = <<>>
    /\ var_names = <<>>
    /\ zvars = <<>>
    /\ coords = <<>>
    /\ dims = NoDims
    /\ vectors = <<>>
    /\ positions = <<>>
    /\ cx = NoComplex
    /\ call = NoCall
    /\ metric = "No_metric"
    /\ mcall = NoCall
    /\ df = NoDeriv
    /\ bg = NoGlobals
    /\ mt = Idle
    /\ opt = Idle
    /\ cos = Idle
    /\ gau = Idle

\* ZMTAtom(line) has returned or raised
Parsed == parsed.ok \/ parsed.err # ""

\* atom = ZMTAtom(line)
ParseLine ==
    /\ ~Parsed
    /\ parsed' = ZMTAtom(line)
    /\ UNCHANGED <<line, kind, zmtatoms, var_names, zvars, coords, dims, vectors,
                   positions, cx, call, metric, mcall, df, bg, mt, opt, cos, gau>>

NextParse == ParseLine

SpecParse == InitParse /\ [][NextParse]_vars

-----------------------------------------------------------------------------
(* The metric context: the module attribute metric.metric *)

\* the methods of the classes the context can be an instance of
Methods(cls) ==
    IF cls = "No_metric" THEN {"__init__", "__str__"}
    ELSE {"__init__", "lower", "raises", "norm_up", "norm_down", "__str__"}

\* setup_metric that leaves the context as it is
setup_metric_noop(F) == "No_metric"
\* setup_metric(F): the context becomes Default(F)
setup_metric(F) == "Default"

\* Default.lower(vec, place) and Default.raises(vec, place): deepcopy(vec)
Default_lower(vec, place) == vec
Default_raises(vec, place) == vec

\* metric.<name>(vec, place) on a context of class cls
MetricCall(cls, name, vec, place) ==
    IF name \notin Methods(cls) THEN [err |-> "AttributeError", ret |-> <<>>]
    ELSE [err |-> "",
          ret |-> IF name = "lower" THEN Default_lower(vec, place)
                  ELSE Default_raises(vec, place)]

MCall(op, arg, r, done) ==
    [op |-> op, arg |-> arg, outcome |-> r.err, ret |-> r.ret, setup |-> done]

\* whether setup_metric has been called so far
SetupDone == mcall # NoCall /\ mcall.setup

\* setup_metric(F)
SetupMetric ==
    /\ \E F \in {"None", "int2cart"} :
        /\ metric' = setup_metric(F)
        /\ mcall' = MCall("setup_metric", <<F>>, [err |-> "", ret |-> <<>>], TRUE)
    /\ UNCHANGED <<line, parsed, kind, zmtatoms, var_names, zvars, coords, dims,
                   vectors, positions, cx, call, df, bg, mt, opt, cos, gau>>

\* metric.lower(vec, place)
MetricLower ==
    /\ \E vec \in Vectors, place \in Places :
        mcall' = MCall("lower", <<vec, place>>, MetricCall(metric, "lower", vec, place),
                       SetupDone)
    /\ UNCHANGED <<line, parsed, kind, zmtatoms, var_names, zvars, coords, dims,
                   vectors, positions, cx, call, metric, df, bg, mt, opt, cos, gau>>

\* metric.raises(vec, place)
MetricRaises ==
    /\ \E vec \in Vectors, place \in Places :
        mcall' = MCall("raises", <<vec, place>>, MetricCall(metric, "raises", vec, place),
                       SetupDone)
    /\ UNCHANGED <<line, parsed, kind, zmtatoms, var_names, zvars, coords, dims,
                   vectors, positions, cx, call, metric, df, bg, mt, opt, cos, gau>>

NextMetric ==
    \/ SetupMetric
    \/ MetricLower
    \/ MetricRaises

SpecMetric == Init /\ [][NextMetric]_vars

-----------------------------------------------------------------------------
(* derivatef: the numerical derivative of a function, its evaluations handed
   to a map function p_map *)

\* most components of the geometry x0 handed to derivatef
MaxDim == 2
\* the components of x0 are 1..MaxX
MaxX == 2
\* most evaluations that p_map has under way at a time
MaxWorkers == 2

RECURSIVE SumTo(_, _)
SumTo(x, n) == IF n = 0 THEN 0 ELSE SumTo(x, n - 1) + n * x[n] * x[n]
RECURSIVE ProdTo(_, _)
ProdTo(x, n) == IF n = 0 THEN 1 ELSE ProdTo(x, n - 1) * x[n]

\* the functions g0 handed to derivatef: one of three outputs, after the g of
\* the doctest, and one of a single output
Functions == {"g3", "g1"}
Apply(g0, x) ==
    IF g0 = "g3" THEN <<2 * ProdTo(x, Len(x)), x[Len(x)] * x[Len(x)], x[1]>>
    ELSE <<SumTo(x, Len(x))>>

\* newgeo(xmidd, num, delta, plus, isarr): a new list xwk with component num
\* displaced; xmidd is left as it was
newgeo_inplace(xmidd, num, delta, plus) ==
    [xwk |-> [xmidd EXCEPT ![num] = IF plus THEN @ + delta ELSE @ - delta],
     xmidd |-> [xmidd EXCEPT ![num] = IF plus THEN @ + delta ELSE @ - delta]]
newgeo(xmidd, num, delta, plus) ==
    [xwk |-> [xmidd EXCEPT ![num] = IF plus THEN @ + delta ELSE @ - delta],
     xmidd |-> xmidd]

\* the loops that build xs (lines 203-218), from component i on; r holds the
\* list xs so far and x0 as the calls of newgeo have left it
RECURSIVE CentralFrom(_, _, _)
CentralMinus(r, i, delta, g) ==
    CentralFrom([xs |-> Append(r.xs, g.xwk), x0 |-> g.xmidd], i + 1, delta)
CentralPlus(r, i, delta, g) ==
    CentralMinus([xs |-> Append(r.xs, g.xwk), x0 |-> g.xmidd], i, delta,
                 newgeo(g.xmidd, i, delta, FALSE))
CentralFrom(r, i, delta) ==
    IF i > Len(r.x0) THEN r ELSE CentralPlus(r, i, delta, newgeo(r.x0, i, delta, TRUE))
RECURSIVE OneSidedFrom(_, _, _)
OneSidedPlus(r, i, delta, g) ==
    OneSidedFrom([xs |-> Append(r.xs, g.xwk), x0 |-> g.xmidd], i + 1, delta)
OneSidedFrom(r, i, delta) ==
    IF i > Len(r.x0) THEN r ELSE OneSidedPlus(r, i, delta, newgeo(r.x0, i, delta, TRUE))
Geometries(direction, x0, delta) ==
    IF direction = "central" THEN CentralFrom([xs |-> <<>>, x0 |-> x0], 1, delta)
    ELSE OneSidedFrom([xs |-> <<x0>>, x0 |-> x0], 1, delta)

\* a quotient of the code's floating point division, kept as written
Quotient(num, den) == [num |-> num, den |-> den]

\* the matrix deriv (lines 226-268): geolen rows of derlen entries
DerivMatrix(direction, g1, delta, geolen) ==
    [i \in 1..geolen |->
        [j \in 1..Len(g1[1]) |->
            IF direction = "central"
            THEN Quotient(g1[2 * i - 1][j] - g1[2 * i][j], 2 * delta)
            ELSE Quotient(g1[i + 1][j] - g1[1][j], delta)]]

\* p_map(g0, xs): of the evaluations not yet finished, the first MaxWorkers
\* in the order of xs are under way
InFlight(xs, order) ==
    {j \in DOMAIN xs : /\ j \notin Range(order)
                       /\ Cardinality({k \in 1..j : k \notin Range(order)}) <= MaxWorkers}
\* the list p_map returns, if it were in the order the evaluations finished
p_map_as_finished(xs, order, vals) == vals
\* the list p_map returns: the value of xs[j] at place j
p_map_gather(xs, order, vals) ==
    [j \in DOMAIN xs |-> vals[CHOOSE i \in DOMAIN order : order[i] = j]]

Directions == {"central", "forward", "backward", "sideways"}
Deltas == {1, 2}
Geometry0 == UNION {[1..n -> 1..MaxX] : n \in 1..MaxDim}

\* derivatef up to the call of p_map (lines 159-222)
derivatef_begin(g0, x0, delta, direction) ==
    IF direction \notin {"central", "forward", "backward"}
    THEN [stage |-> "raised", err |-> "AssertionError", g0 |-> g0, arg |-> x0,
          x0 |-> x0, direction |-> direction]
    ELSE [stage |-> "mapping", g0 |-> g0, arg |-> x0, direction |-> direction,
          delta0 |-> delta,
          delta |-> IF direction = "backward" THEN 0 - delta ELSE delta,
          x0 |-> Geometries(direction, x0,
                            IF direction = "backward" THEN 0 - delta ELSE delta).x0,
          xs |-> Geometries(direction, x0,
                            IF direction = "backward" THEN 0 - delta ELSE delta).xs,
          order |-> <<>>, vals |-> <<>>]

\* derivatef from the return of p_map on (lines 222-268)
derivatef_end(d, g1) ==
    [stage |-> "done", g0 |-> d.g0, arg |-> d.arg, direction |-> d.direction,
     delta0 |-> d.delta0, delta |-> d.delta, x0 |-> d.x0, xs |-> d.xs,
     order |-> d.order, g1 |-> g1,
     deriv |-> DerivMatrix(d.direction, g1, d.delta, Len(d.arg))]

\* derivatef(g0, x0, delta, p_map, direction) is called
DerivatefCalled ==
    /\ df.stage = "idle"
    /\ \E g0 \in Functions, x0 \in Geometry0, delta \in Deltas, direction \in Directions :
        df' = derivatef_begin(g0, x0, delta, direction)
    /\ UNCHANGED <<line, parsed, kind, zmtatoms, var_names, zvars, coords, dims,
                   vectors, positions, cx, call, metric, mcall, bg, mt, opt, cos, gau>>

\* one of the evaluations that p_map has under way finishes
WorkerFinishes ==
    /\ df.stage = "mapping"
    /\ \E j \in InFlight(df.xs, df.order) :
        df' = [df EXCEPT !.order = Append(@, j),
                         !.vals = Append(@, Apply(df.g0, df.xs[j]))]
    /\ UNCHANGED <<line, parsed, kind, zmtatoms, var_names, zvars, coords, dims,
                   vectors, positions, cx, call, metric, mcall, bg, mt, opt, cos, gau>>

\* p_map returns and derivatef builds its matrix
DerivatefReturns ==
    /\ df.stage = "mapping"
    /\ Len(df.order) = Len(df.xs)
    /\ df' = derivatef_end(df, p_map_gather(df.xs, df.order, df.vals))
    /\ UNCHANGED <<line, parsed, kind, zmtatoms, var_names, zvars, coords, dims,
                   vectors, positions, cx, call, metric, mcall, bg, mt, opt, cos, gau>>

NextDeriv ==
    \/ DerivatefCalled
    \/ WorkerFinishes
    \/ DerivatefReturns

SpecDeriv == Init /\ [][NextDeriv]_vars

-----------------------------------------------------------------------------
(* B_globals and brtbrm1: the bases of the global translations and rotations.
   Numbers are exact; with N atoms the centred coordinates are kept in units
   of 1/N, so that the division by N leaves integers *)

\* most atoms of a geometry handed to B_globals
MaxN == 3
\* the atoms sit on corners of the unit cube
Corner == {0, 1}

RECURSIVE SumOver(_, _)
SumOver(f, n) == IF n = 0 THEN 0 ELSE SumOver(f, n - 1) + f[n]
\* dot(a, b) of two vectors of three
dot(a, b) == a[1] * b[1] + a[2] * b[2] + a[3] * b[3]
eye == << <<1, 0, 0>>, <<0, 1, 0>>, <<0, 0, 1>> >>

\* "for c in carts: centr += c" (lines 416-418), before the division by N:
\* over an N x 3 array c is a row, over a flat vector c is one number, which
\* numpy adds to every component of centr
centr(shape, points) ==
    IF shape = "rows"
    THEN [d \in 1..3 |-> SumOver([i \in DOMAIN points |-> points[i][d]], Len(points))]
    ELSE [d \in 1..3 |->
            SumOver([i \in DOMAIN points |-> points[i][1] + points[i][2] + points[i][3]],
                    Len(points))]

\* pcri after "pcri -= centr" (lines 411-420), in units of 1/N
pcri(shape, points) ==
    [i \in DOMAIN points |->
        [d \in 1..3 |-> Len(points) * points[i][d] - centr(shape, points)[d]]]

\* the rows of B_T and of B_R (lines 423-435): three per atom
B_T(p) == [r \in 1..(3 * Len(p)) |-> eye[((r - 1) % 3) + 1]]
Block(pcr) ==
    << <<0, pcr[3], 0 - pcr[2]>>, <<0 - pcr[3], 0, pcr[1]>>, <<pcr[2], 0 - pcr[1], 0>> >>
B_R(p) == [r \in 1..(3 * Len(p)) |-> Block(p[((r - 1) \div 3) + 1])[((r - 1) % 3) + 1]]

\* Br of brtbrm1 (lines 455-462): the lower triangle of B_R.T * B_R
BrLower(cs) ==
    [i \in 1..3 |-> [j \in 1..3 |->
        IF j > i THEN 0
        ELSE SumOver([c \in DOMAIN cs |->
                        (IF i = j THEN dot(cs[c], cs[c]) ELSE 0)
                            - cs[c][i] * cs[c][j]], Len(cs))]]

\* the cofactors a..k and the determinant z of brtbrm1 (lines 464-478); the
\* quotient by z is kept as numerators and denominator
Cofactors_unsigned(Br) ==
    [num |-> << <<Br[2][2] * Br[3][3] - Br[3][2] * Br[3][2],
                  Br[3][2] * Br[3][1] - Br[3][3] * Br[2][1],
                  Br[2][1] * Br[3][2] - Br[3][1] * Br[2][2]>>,
                <<Br[3][2] * Br[3][1] - Br[3][3] * Br[2][1],
                  Br[1][1] * Br[3][3] - Br[3][1] * Br[3][1],
                  Br[1][1] * Br[3][2] - Br[2][1] * Br[3][1]>>,
                <<Br[2][1] * Br[3][2] - Br[3][1] * Br[2][2],
                  Br[1][1] * Br[3][2] - Br[2][1] * Br[3][1],
                  Br[1][1] * Br[2][2] - Br[2][1] * Br[2][1]>> >>,
     den |-> Br[1][1] * (Br[2][2] * Br[3][3] - Br[3][2] * Br[3][2])
                + Br[2][1] * (Br[3][2] * Br[3][1] - Br[3][3] * Br[2][1])
                + Br[3][1] * (Br[2][1] * Br[3][2] - Br[3][1] * Br[2][2])]
Cofactors(Br) ==
    [num |-> << <<Br[2][2] * Br[3][3] - Br[3][2] * Br[3][2],
                  Br[3][2] * Br[3][1] - Br[3][3] * Br[2][1],
                  Br[2][1] * Br[3][2] - Br[3][1] * Br[2][2]>>,
                <<Br[3][2] * Br[3][1] - Br[3][3] * Br[2][1],
                  Br[1][1] * Br[3][3] - Br[3][1] * Br[3][1],
                  Br[2][1] * Br[3][1] - Br[1][1] * Br[3][2]>>,
                <<Br[2][1] * Br[3][2] - Br[3][1] * Br[2][2],
                  Br[2][1] * Br[3][1] - Br[1][1] * Br[3][2],
                  Br[1][1] * Br[2][2] - Br[2][1] * Br[2][1]>> >>,
     den |-> Br[1][1] * (Br[2][2] * Br[3][3] - Br[3][2] * Br[3][2])
                + Br[2][1] * (Br[3][2] * Br[3][1] - Br[3][3] * Br[2][1])
                + Br[3][1] * (Br[2][1] * Br[3][2] - Br[3][1] * Br[2][2])]
brtbrm1(cs) == Cofactors(BrLower(cs))

\* B_globals(carts): B_T, (B_T.T B_T)^-1 = eye(3) / N, B_R, (B_R.T B_R)^-1
B_globals(shape, points) ==
    [B_T |-> B_T(pcri(shape, points)),
     Bt_inv |-> [num |-> eye, den |-> Len(points)],
     B_R |-> B_R(pcri(shape, points)),
     Br_inv |-> brtbrm1(pcri(shape, points))]

\* the geometries handed over: up to MaxN atoms at different places, listed in
\* a fixed order, as an N x 3 array or as a flat vector of 3N numbers
Place(p) == p[1] + 2 * p[2] + 4 * p[3]
Geometries3(n) ==
    {g \in [1..n -> [1..3 -> Corner]] : \A i \in 1..(n - 1) : Place(g[i]) < Place(g[i + 1])}

\* BT, BT2i, BR, BR2i = B_globals(carts)
BGlobalsCalled ==
    /\ bg.stage = "idle"
    /\ \E n \in 1..MaxN : \E points \in Geometries3(n) : \E shape \in {"rows", "flat"} :
        bg' = [stage |-> "done", shape |-> shape, carts |-> points,
               ret |-> B_globals(shape, points)]
    /\ UNCHANGED <<line, parsed, kind, zmtatoms, var_names, zvars, coords, dims,
                   vectors, positions, cx, call, metric, mcall, df, mt, opt, cos, gau>>

NextGlobals == BGlobalsCalled

SpecGlobals == Init /\ [][NextGlobals]_vars

-----------------------------------------------------------------------------
(* Metric and Metric_reduced: lower and raises through the Jacobian B of the
   transform at the place.  Numbers are exact: a matrix of quotients is kept
   as integer numerators over one denominator (a denominator of 0 stands for
   entries that are no numbers), and a vector is a matrix of one column *)

Abs(a) == IF a < 0 THEN 0 - a ELSE a
RECURSIVE Gcd(_, _)
Gcd(a, b) == IF b = 0 THEN a ELSE Gcd(b, a % b)
RECURSIVE GcdOf(_)
GcdOf(S) ==
    IF S = {} THEN 0
    ELSE Gcd(Abs(CHOOSE x \in S : TRUE), GcdOf(S \ {CHOOSE x \in S : TRUE}))
Entries(A) == {A[i][j] : i \in DOMAIN A, j \in DOMAIN A[1]}

\* the one element of a set of one: Only({F(x) : x \in {e}}) is F(e) with e
\* worked out once
Only(S) == CHOOSE x \in S : TRUE
\* s * A and A - B of matrices
mscale(s, A) ==
    Only({[i \in DOMAIN a |-> [j \in DOMAIN a[1] |-> t * a[i][j]]] : t \in {s}, a \in {A}})
msub(A, B) ==
    Only({[i \in DOMAIN a |-> [j \in DOMAIN a[1] |-> a[i][j] - b[i][j]]] : a \in {A}, b \in {B}})
\* the quotient num / den in lowest terms, den > 0
Lowest(num, den, g) ==
    IF den = 0 THEN [num |-> num, den |-> 0]
    ELSE [num |-> [i \in DOMAIN num |-> [j \in DOMAIN num[1] |->
                    ((IF den < 0 THEN 0 - 1 ELSE 1) * num[i][j]) \div g]],
          den |-> Abs(den) \div g]
Quot(num, den) ==
    Only({Lowest(n, d, GcdOf(Entries(n) \cup {d})) : n \in {num}, d \in {den}})
\* a returned array whose entries are not determined by the arguments
Unspecified == [num |-> <<>>, den |-> 0]

\* dot(A, B) of two matrices, and A.T
mdot(A, B) ==
    Only({[i \in DOMAIN a |-> [j \in DOMAIN b[1] |->
            SumOver([k \in DOMAIN b |-> a[i][k] * b[k][j]], Len(b))]] : a \in {A}, b \in {B}})
transpose(A) == [j \in DOMAIN A[1] |-> [i \in DOMAIN A |-> A[i][j]]]

\* btb(B, vec): B^T B vec
btb(B, vec) == mdot(transpose(B), mdot(B, vec))

\* numpy.linalg.solve(M, vec) for a system of one or two unknowns, by the
\* determinant and the adjugate.  A matrix that is exactly singular is
\* reported with LinAlgError when the elimination meets a pivot of exactly
\* zero, and answered with an array of no meaning when rounding hides it
det(A) == IF Len(A) = 1 THEN A[1][1] ELSE A[1][1] * A[2][2] - A[1][2] * A[2][1]
adj(A) ==
    IF Len(A) = 1 THEN << <<1>> >>
    ELSE << <<A[2][2], 0 - A[1][2]>>, <<0 - A[2][1], A[1][1]>> >>
Solved(M, vec, g) ==
    Quot(mscale(M.den \div g, mdot(adj(M.num), vec.num)), det(M.num) * (vec.den \div g))
solve(M, vec) ==
    IF M.den = 0 \/ vec.den = 0 \/ det(M.num) = 0
    THEN {[err |-> "LinAlgError", ret |-> <<>>], [err |-> "", ret |-> Unspecified]}
    ELSE {[err |-> "", ret |-> Solved(M, vec, Gcd(M.den, vec.den))]}

\* contoco(F, pos, vec) and cotocon(F, pos, vec), B = F(pos)
contoco(B, vec) == [err |-> "", ret |-> Quot(btb(B, vec.num), vec.den)]
cotocon(B, vec) == solve([num |-> mdot(transpose(B), B), den |-> 1], vec)

\* M - M_T - M_R of contoco_red and cotocon_red, G = B_globals(p_cart) of N
\* atoms: M_T = BT BT2_inv BT.T M and M_R = BR BR2_inv BR.T M.  B_R is held in
\* units of 1/N and brtbrm1 was handed coordinates in units of 1/N, so that
\* the factors N cancel in M_R
M_T(G, M) == mdot(G.B_T, mdot(G.Bt_inv.num, mdot(transpose(G.B_T), M)))
M_R(G, M) == mdot(G.B_R, mdot(G.Br_inv.num, mdot(transpose(G.B_R), M)))
Remainder(G, M) ==
    msub(msub(mscale(G.Bt_inv.den * G.Br_inv.den, M), mscale(G.Br_inv.den, M_T(G, M))),
         mscale(G.Bt_inv.den, M_R(G, M)))

\* contoco_red(F, f, pos, vec) and cotocon_red(F, f, pos, vec), B = F(pos) and
\* G = B_globals(f(pos))
contoco_red(B, G, vec) ==
    [err |-> "",
     ret |-> Quot(mdot(transpose(B), Remainder(G, mdot(B, vec.num))),
                  G.Bt_inv.den * G.Br_inv.den * vec.den)]
\* cotocon_red that solves with B^T B, the global modes left in
cotocon_red_unprojected(B, G, vec) == cotocon(B, vec)
cotocon_red(B, G, vec) ==
    solve(Quot(mdot(transpose(B), Remainder(G, B)), G.Bt_inv.den * G.Br_inv.den), vec)

\* deepcopy(vec), asarray(dot(...)), solve(...): the array returned is a new
\* object, told from those in existence by its identity
deepcopy_shared(id, ids) == id
deepcopy(id, ids) == (CHOOSE m \in ids : \A k \in ids : k <= m) + 1

\* met.lower(vec, place) of the three classes: the value returned; G is
\* B_globals(f(place)) where the class looks at it
Globals(cls, shape, carts) ==
    IF cls = "Metric_reduced" THEN B_globals(shape, carts) ELSE NoGlobals
lower(cls, B, G, vec) ==
    IF cls = "Default" THEN [err |-> "", ret |-> Default_lower(vec, G)]
    ELSE IF cls = "Metric" THEN contoco(B, vec)
    ELSE contoco_red(B, G, vec)
\* met.raises(vec, place): the values it can return
raises(cls, B, G, vec) ==
    IF cls = "Default" THEN {[err |-> "", ret |-> Default_raises(vec, G)]}
    ELSE IF cls = "Metric" THEN cotocon(B, vec)
    ELSE cotocon_red(B, G, vec)

\* the transforms at the place: the Jacobian B of n columns over the 3N
\* Cartesian coordinates, with columns that are zero or single coordinates,
\* and the geometry f(pos), which only Metric_reduced looks at
\* geometries of one atom, of two (on one line) and of three (on no line);
\* the integers of the exact arithmetic stay within 32 bits for these
AtomCounts == {1, 2, 3}
Column(N, k) == [r \in 1..(3 * N) |-> IF r = k THEN 1 ELSE 0]
Jacobians(N, n) ==
    {[r \in 1..(3 * N) |-> [c \in 1..n |-> Column(N, ks[c])[r]]] :
        ks \in [1..n -> {0, 1, 3 * N}]}
Transforms(cls) ==
    IF cls = "Default" THEN {[B |-> <<>>, n |-> n, shape |-> "rows", carts |-> <<>>] : n \in 1..2}
    ELSE UNION {UNION {
            {[B |-> B, n |-> n, shape |-> g[1], carts |-> g[2]] :
                B \in Jacobians(N, n),
                g \in IF cls = "Metric" THEN {<<"rows", <<>> >>}
                      ELSE {"rows", "flat"} \X Geometries3(N)} :
            n \in 1..2} : N \in AtomCounts}
\* the vectors taken through: n components, all 1 or 1, 2, ...
Contravariant(n) ==
    {[num |-> [i \in 1..n |-> <<1>>], den |-> 1], [num |-> [i \in 1..n |-> <<i>>], den |-> 1]}

NotYet == [err |-> "", ret |-> Unspecified]

\* dy = met.lower(dY, Y)
MetricLowers ==
    /\ mt.stage = "idle"
    /\ \E cls \in {"Default", "Metric", "Metric_reduced"} :
       \E t \in Transforms(cls) : \E vec \in Contravariant(t.n) :
       \E G \in {Globals(cls, t.shape, t.carts)} :
        mt' = [stage |-> "lowered", cls |-> cls, B |-> t.B, shape |-> t.shape,
               carts |-> t.carts, arg |-> vec, v |-> vec,
               lo |-> lower(cls, t.B, G, vec), up |-> NotYet,
               ids |-> [v |-> 1, lo |-> deepcopy(1, {1}), up |-> 0], target |-> ""]
    /\ UNCHANGED <<line, parsed, kind, zmtatoms, var_names, zvars, coords, dims,
                   vectors, positions, cx, call, metric, mcall, df, bg, opt, cos, gau>>

\* met.raises(dy, Y) at the same place
MetricRaisesBack ==
    /\ mt.stage = "lowered"
    /\ \E G \in {Globals(mt.cls, mt.shape, mt.carts)} :
       \E r \in raises(mt.cls, mt.B, G, mt.lo.ret) :
        mt' = [mt EXCEPT !.stage = "raised", !.up = r,
                         !.ids.up = deepcopy(mt.ids.lo, {mt.ids.v, mt.ids.lo})]
    /\ UNCHANGED <<line, parsed, kind, zmtatoms, var_names, zvars, coords, dims,
                   vectors, positions, cx, call, metric, mcall, df, bg, opt, cos, gau>>

\* the caller writes into one of the arrays returned, dy[0] += 1 or the like:
\* every name bound to that array sees it
Written(x) == [x EXCEPT !.num[1][1] = @ + 1]
WriteResult ==
    /\ mt.stage = "raised"
    /\ mt.up.err = "" /\ mt.lo.ret.den # 0 /\ mt.up.ret.den # 0
    /\ \E name \in {"lo", "up"} :
        mt' = [mt EXCEPT !.stage = "written",
                 !.v = IF mt.ids.v = mt.ids[name] THEN Written(@) ELSE @,
                 !.lo.ret = IF mt.ids.lo = mt.ids[name] THEN Written(@) ELSE @,
                 !.up.ret = IF mt.ids.up = mt.ids[name] THEN Written(@) ELSE @,
                 !.target = name]
    /\ UNCHANGED <<line, parsed, kind, zmtatoms, var_names, zvars, coords, dims,
                   vectors, positions, cx, call, metric, mcall, df, bg, opt, cos, gau>>

NextRound ==
    \/ MetricLowers
    \/ MetricRaisesBack
    \/ WriteResult

SpecRound == Init /\ [][NextRound]_vars

-----------------------------------------------------------------------------
(* fopt: minimize and lbfgs.  A flat array is a matrix of one column of
   quotients over one denominator, a number a matrix of one entry; an array
   with entries that are no numbers (nan, inf) has the denominator 0 *)

\* most iterations lbfgs is allowed when called with maxiter given
MaxIter == 2

\* arithmetic of arrays (numpy): a * b as matrices, a - b, a + b, 1 / a, a < b;
\* a nan or inf in an argument leaves a nan in the result, and a comparison
\* with a nan is false
Num(n, d) == [num |-> << <<n>> >>, den |-> d]
qmul(a, b) ==
    IF a.den = 0 \/ b.den = 0 THEN Unspecified ELSE Quot(mdot(a.num, b.num), a.den * b.den)
qsub(a, b) ==
    IF a.den = 0 \/ b.den = 0 THEN Unspecified
    ELSE Quot(msub(mscale(b.den, a.num), mscale(a.den, b.num)), a.den * b.den)
qadd(a, b) == qsub(a, qmul(b, Num(0 - 1, 1)))
qinv(a) == IF a.den = 0 THEN Unspecified ELSE Quot(<< <<a.den>> >>, a.num[1][1])
qless(a, b) == a.den # 0 /\ b.den # 0 /\ a.num[1][1] * b.den < b.num[1][1] * a.den
\* dot(a, b) of two flat arrays
qdot(a, b) == IF a.den = 0 \/ b.den = 0 THEN Unspecified ELSE qmul([a EXCEPT !.num = transpose(@)], b)
\* max(abs(a))
maxabs(a) ==
    IF a.den = 0 THEN Unspecified
    ELSE Num(CHOOSE m \in {Abs(x) : x \in Entries(a.num)} :
                \A x \in Entries(a.num) : Abs(x) <= m, a.den)

\* the objectives: "bowl", f(x) = dot(x, x) / 2 with the gradient x, and
\* "slope", f(x) = - sum(x) with the gradient -1 in every component
fg(f, n, r) ==
    IF f = "bowl" THEN [e |-> qmul(qdot(r, r), Num(1, 2)), g |-> r]
    ELSE [e |-> qdot([num |-> [i \in 1..n |-> <<0 - 1>>], den |-> 1], r),
          g |-> [num |-> [i \in 1..n |-> <<0 - 1>>], den |-> 1]]

\* LBFGS.update(dr, dg) on the lists s, y, rho of self.H
Appended(H, dr, dg, rho0, memory) ==
    IF Len(H.s) + 1 > memory
    THEN [s |-> Tail(Append(H.s, dr)), y |-> Tail(Append(H.y, dg)),
          rho |-> Tail(Append(H.rho, rho0))]
    ELSE [s |-> Append(H.s, dr), y |-> Append(H.y, dg), rho |-> Append(H.rho, rho0)]
update(H, dr, dg, h0, memory) ==
    IF ~qless(Num(0, 1), qinv(qdot(dr, dg))) /\ qinv(qdot(dr, dg)).den # 0
    THEN Appended(H, dr, qmul(dr, qinv(h0)), qinv(qdot(qmul(dr, qinv(h0)), dr)), memory)
    ELSE Appended(H, dr, dg, qinv(qdot(dr, dg)), memory)

\* LBFGS.apply(g): the loop over range(n - 1, -1, -1), which leaves q and a, ...
RECURSIVE Backward(_, _, _, _)
Backward(H, i, q, a) ==
    IF i = 0 THEN [q |-> q, a |-> a]
    ELSE Only({Backward(H, i - 1, qsub(q, qmul(H.y[i], ai)), [a EXCEPT ![i] = ai]) :
                ai \in {qmul(H.rho[i], qdot(H.s[i], q))}})
\* ... and the loop over range(n), which leaves z
RECURSIVE Forward(_, _, _, _)
Forward(H, i, z, a) ==
    IF i > Len(H.s) THEN z
    ELSE Only({Forward(H, i + 1, zi, a) :
                zi \in {qadd(z, qmul(H.s[i], qsub(a[i], qmul(H.rho[i], qdot(H.y[i], z)))))}})
apply(H, g, h0) ==
    Only({Forward(H, 1, qmul(qa.q, h0), qa.a) :
            qa \in {Backward(H, Len(H.s), g, [i \in 1..Len(H.s) |-> Num(0, 1)])}})

\* "if longest > maxstep: dr *= maxstep / longest" (lines 175-178)
restricted(dr, longest, maxstep) ==
    IF qless(maxstep, longest) THEN qmul(dr, qmul(maxstep, qinv(longest))) ELSE dr

\* one pass of the loop of lbfgs (lines 157-202), o the local variables: the
\* call of fg, the update of the hessian, the step, the tests of convergence
Landed(o, eg, H, dr) ==
    [o EXCEPT !.iteration = o.iteration + 1,
              !.calls = o.calls + 1,
              !.e = eg.e, !.g = eg.g, !.H = H, !.dr = dr,
              !.r0 = o.r, !.g0 = eg.g,
              !.r = qadd(o.r, dr),
              !.steps = Append(o.steps, dr),
              !.converged = \/ qless(maxabs(dr), o.stol)
                            \/ qless(maxabs(eg.g), o.ftol)
                            \/ o.iteration + 1 >= o.maxiter]
Stepped(o, eg, H) ==
    Only({Landed(o, eg, H, restricted(dr, maxabs(dr), o.maxstep)) :
            dr \in {qmul(apply(H, eg.g, o.h0), Num(0 - 1, 1))}})
Evaluated(o, eg) ==
    Only({Stepped(o, eg, H) :
            H \in {IF o.iteration + 1 > 0
                   THEN update(o.H, qsub(o.r, o.r0), qsub(eg.g, o.g0), o.h0, o.memory)
                   ELSE o.H}})
Pass(o) == Only({Evaluated(o, eg) : eg \in {fg(o.f, o.n, o.r)}})

\* lbfgs(fg, x, stol, ftol, maxiter, maxstep, memory, alpha) before the loop
\* (lines 138-154); the defaults of line 109
Defaults ==
    [stol |-> Num(1, 1000000), ftol |-> Num(1, 100000), maxiter |-> 100,
     maxstep |-> Num(1, 25), memory |-> 10, h0 |-> Num(1, 70)]
lbfgs(f, n, x, p) ==
    [f |-> f, n |-> n, stol |-> p.stol, ftol |-> p.ftol, maxiter |-> p.maxiter,
     maxstep |-> p.maxstep, memory |-> p.memory, h0 |-> p.h0,
     H |-> [s |-> <<>>, y |-> <<>>, rho |-> <<>>],
     r0 |-> Unspecified, g0 |-> Unspecified, e |-> Unspecified, g |-> Unspecified,
     dr |-> Unspecified, r |-> x, iteration |-> 0 - 1, converged |-> FALSE,
     calls |-> 0, steps |-> <<>>]

\* x.flatten(): a new array (line 63); the variant that hands back the
\* argument itself
flatten_itself(id) == id
flatten(id) == id + 1

\* the starting points: all components c / 25 for a c of the menu
Starts == {[num |-> [i \in 1..n |-> <<c>>], den |-> 25] : n \in 1..2, c \in {0, 1, 3, 125}}

\* minimize(f, x) up to the loop of lbfgs(fg, y) (lines 52-66): x is the
\* caller's array, with the identity 1
MinimizeCalled ==
    /\ opt.stage = "idle"
    /\ \E f \in {"bowl", "slope"}, x \in Starts, xshape \in {"(n,)", "(1, n)"} :
        opt' = [stage |-> "loop", via |-> "minimize", arg |-> x, x |-> x, xid |-> 1,
                xshape |-> xshape, rid |-> flatten(1),
                o |-> lbfgs(f, Len(x.num), Quot(x.num, x.den), Defaults),
                ret |-> <<>>]
    /\ UNCHANGED <<line, parsed, kind, zmtatoms, var_names, zvars, coords, dims,
                   vectors, positions, cx, call, metric, mcall, df, bg, mt, cos, gau>>

\* lbfgs(fg, x, maxiter = m) called for itself: r = x is the caller's array
LbfgsCalled ==
    /\ opt.stage = "idle"
    /\ \E f \in {"bowl", "slope"}, x \in Starts, m \in 0..MaxIter :
        opt' = [stage |-> "loop", via |-> "lbfgs", arg |-> x, x |-> x, xid |-> 1,
                xshape |-> "(n,)", rid |-> 1,
                o |-> lbfgs(f, Len(x.num), Quot(x.num, x.den), [Defaults EXCEPT !.maxiter = m]),
                ret |-> <<>>]
    /\ UNCHANGED <<line, parsed, kind, zmtatoms, var_names, zvars, coords, dims,
                   vectors, positions, cx, call, metric, mcall, df, bg, mt, cos, gau>>

\* one pass of "while not converged"; "r += dr" writes into the array r is
\* bound to, which every name of that array sees
LbfgsPass ==
    /\ opt.stage = "loop"
    /\ ~opt.o.converged
    /\ \E o \in {Pass(opt.o)} :
        opt' = [opt EXCEPT !.o = o, !.x = IF opt.rid = opt.xid THEN o.r ELSE @]
    /\ UNCHANGED <<line, parsed, kind, zmtatoms, var_names, zvars, coords, dims,
                   vectors, positions, cx, call, metric, mcall, df, bg, mt, cos, gau>>

\* "return r, e, (iteration, converged, g, dr)" (line 209) and, in minimize,
\* "xm.shape = xshape; return xm, fm, stats" (lines 69-71)
LbfgsReturns ==
    /\ opt.stage = "loop"
    /\ opt.o.converged
    /\ opt' = [opt EXCEPT !.stage = "done",
                 !.ret = [xm |-> opt.o.r, fm |-> opt.o.e,
                          stats |-> <<opt.o.iteration, opt.o.converged, opt.o.g, opt.o.dr>>,
                          shape |-> IF opt.via = "minimize" THEN opt.xshape ELSE "(n,)"]]
    /\ UNCHANGED <<line, parsed, kind, zmtatoms, var_names, zvars, coords, dims,
                   vectors, positions, cx, call, metric, mcall, df, bg, mt, cos, gau>>

NextOpt ==
    \/ MinimizeCalled
    \/ LbfgsCalled
    \/ LbfgsPass
    \/ LbfgsReturns

SpecOpt == Init /\ [][NextOpt]_vars

-----------------------------------------------------------------------------
(* read_COS: read_zmt_from_string, which reads the atom lines of a z-matrix
   text into names, connectivities and the numbers of the variables *)

\* s.split(sep) by one separator: the pieces, the empty ones too
RECURSIVE split_by(_, _, _, _)
split_by(s, sep, i, cur) ==
    IF i > Len(s) THEN <<cur>>
    ELSE IF s[i] = sep THEN <<cur>> \o split_by(s, sep, i + 1, <<>>)
    ELSE split_by(s, sep, i + 1, Append(cur, s[i]))
\* s.split(): the pieces between runs of white space
RECURSIVE split(_, _, _)
split(s, i, cur) ==
    IF i > Len(s) THEN IF cur = <<>> THEN <<>> ELSE <<cur>>
    ELSE IF IsSpace(s[i])
         THEN (IF cur = <<>> THEN <<>> ELSE <<cur>>) \o split(s, i + 1, <<>>)
         ELSE split(s, i + 1, Append(cur, s[i]))

\* int(field): the field is all digits here, anything else is a ValueError
IsInt(field) == field # <<>> /\ \A i \in DOMAIN field : IsDigit(field[i])

\* the number of a name in var_names (a dict of name -> number) kept as the
\* list of the names in the order of their numbers 0, 1, ...
IndexOf(var_names0, vname) == (CHOOSE i \in DOMAIN var_names0 : var_names0[i] = vname) - 1

\* the body of "for i, vname in enumerate(vname_line)" (lines 113-133) that
\* counts every reference into the multiplicity, the first of a name too
Counted_every(acc, i, tok, vname, known) ==
    [acc EXCEPT
        !.multiplicity = @ + 1,
        !.var_count = IF known THEN @ ELSE @ + 1,
        !.var_names = IF known THEN @ ELSE Append(@, vname),
        !.dihedral_nums = IF ~known /\ i = 2 THEN Append(@, acc.var_count + 1) ELSE @,
        !.var_numbers =
            Append(@, (IF tok[1] = "-" THEN 0 - 1 ELSE 1)
                        * (IF known THEN IndexOf(acc.var_names, vname) ELSE acc.var_count + 1)
                      + 1)]
\* the body of "for i, vname in enumerate(vname_line)" (lines 113-133); tok
\* is the field as written, vname the name without its sign, known whether
\* the name is a key of var_names
Counted(acc, i, tok, vname, known) ==
    [acc EXCEPT
        !.multiplicity = IF known THEN @ + 1 ELSE @,
        !.var_count = IF known THEN @ ELSE @ + 1,
        !.var_names = IF known THEN @ ELSE Append(@, vname),
        !.dihedral_nums = IF ~known /\ i = 2 THEN Append(@, acc.var_count + 1) ELSE @,
        !.var_numbers =
            Append(@, (IF tok[1] = "-" THEN 0 - 1 ELSE 1)
                        * (IF known THEN IndexOf(acc.var_names, vname) ELSE acc.var_count + 1)
                      + 1)]
Count(acc, i, tok, vname) ==
    Counted(acc, i, tok, vname, \E k \in DOMAIN acc.var_names : acc.var_names[k] = vname)
RECURSIVE CountAll(_, _, _)
CountAll(acc, vname_line, n) ==
    IF n = 0 THEN acc
    ELSE Count(CountAll(acc, vname_line, n - 1), n - 1, vname_line[n],
               IF vname_line[n][1] = "-" THEN Tail(vname_line[n]) ELSE vname_line[n])

\* the body of "for line in lines" (lines 84-133) for a line of fields
ReadLine(acc, fields) ==
    IF acc.stop \/ acc.err # "" THEN acc
    ELSE IF Len(fields) = 0 THEN [acc EXCEPT !.stop = TRUE]
    ELSE IF Len(fields) \notin {1, 3, 5, 7}
    THEN [acc EXCEPT !.err = "NameError", !.names = Append(@, fields[1]),
                     !.nums_atom = @ + 1]
    ELSE IF \E k \in {2, 4, 6} \cap DOMAIN fields : ~IsInt(fields[k])
    THEN [acc EXCEPT !.err = "ValueError", !.names = Append(@, fields[1]),
                     !.nums_atom = @ + 1]
    ELSE CountAll([acc EXCEPT !.names = Append(@, fields[1]),
                              !.nums_atom = @ + 1,
                              !.matrix = Append(@, [k \in 1..((Len(fields) - 1) \div 2) |->
                                                        DigitsVal(fields[2 * k]) - 1])],
                  [k \in 1..((Len(fields) - 1) \div 2) |-> fields[2 * k + 1]],
                  (Len(fields) - 1) \div 2)
RECURSIVE ReadLines(_, _)
ReadLines(lines, n) ==
    IF n = 0
    THEN [names |-> <<>>, matrix |-> <<>>, var_names |-> <<>>, var_numbers |-> <<>>,
          multiplicity |-> 0, nums_atom |-> 0, dihedral_nums |-> <<>>,
          var_count |-> 0 - 1, stop |-> FALSE, err |-> ""]
    ELSE ReadLine(ReadLines(lines, n - 1), split(lines[n], 1, <<>>))

\* read_zmt_from_string(zmat_string): what it returns, or the exception
Returned(acc) ==
    [err |-> acc.err,
     ret |-> IF acc.err # "" THEN <<>>
             ELSE <<acc.names, acc.matrix, acc.var_numbers, acc.multiplicity,
                    acc.dihedral_nums, <<acc.nums_atom * 3, acc.var_count + 1>> >>]
read_zmt_from_string(zmat_string) ==
    Returned(ReadLines(split_by(zmat_string, "\n", 1, <<>>),
                       Len(split_by(zmat_string, "\n", 1, <<>>))))

\* the texts read: atom lines of the menus, then nothing, or a newline, or an
\* empty line and a line of a variable, or a line of blanks and an atom line
CosLineMenu(i) ==
    IF i = 1 THEN {<<"A">>}
    ELSE IF i = 2
    THEN {Join(<< <<"A">>, <<"1">>, <<"a">> >>),
          Join(<< <<"A">>, <<"1">>, <<"-", "a">> >>),
          Join(<< <<"A">>, <<"1">> >>)}
    ELSE IF i = 3
    THEN {Join(<< <<"A">>, <<"1">>, <<"a">>, <<"2">>, <<"b">> >>),
          Join(<< <<"A">>, <<"2">>, <<"-", "a">>, <<"1">>, <<"-", "b">> >>),
          Join(<< <<"A">>, <<"1">>, <<"b">>, <<"2">>, <<"b">> >>)}
    ELSE {Join(<< <<"A">>, <<"2">>, <<"a">>, <<"1">>, <<"-", "b">>, <<"3">>, <<"c">> >>),
          Join(<< <<"A">>, <<"3">>, <<"c">>, <<"1">>, <<"0">>, <<"2">>, <<"-", "c">> >>),
          Join(<< <<"A">>, <<"1">>, <<"a">>, <<"2">>, <<"b">> >>)}
RECURSIVE CosLineSeqs(_)
CosLineSeqs(n) ==
    IF n = 0 THEN {<<>>}
    ELSE {Append(p, l) : p \in CosLineSeqs(n - 1), l \in CosLineMenu(n)}
CosTails ==
    {<<>>, << <<>> >>, << <<>>, <<"a", " ", "=", " ", "1">>, <<>> >>,
     << <<" ", " ">>, Join(<< <<"A">>, <<"1">>, <<"d">> >>) >>}
RECURSIVE JoinLines(_)
JoinLines(lines) ==
    IF lines = <<>> THEN <<>>
    ELSE IF Len(lines) = 1 THEN lines[1]
    ELSE lines[1] \o <<"\n">> \o JoinLines(Tail(lines))

\* read_zmt_from_string(zmat_string)
ReadZmt ==
    /\ cos.stage = "idle"
    /\ \E n \in 1..MaxAtoms : \E atoms \in CosLineSeqs(n) : \E tail \in CosTails :
        cos' = [stage |-> "done", lines |-> atoms \o tail,
                out |-> read_zmt_from_string(JoinLines(atoms \o tail))]
    /\ UNCHANGED <<line, parsed, kind, zmtatoms, var_names, zvars, coords, dims,
                   vectors, positions, cx, call, metric, mcall, df, bg, mt, opt, gau>>

NextCos == ReadZmt

SpecCos == Init /\ [][NextCos]_vars

-----------------------------------------------------------------------------
(* gaussian: the calculator Gaussian, which runs the external program for
   the geometry of an Atoms object and keeps the last result *)

MaxRuns == 2

\* what the program run for a geometry yields: a value that knows the
\* positions and the atomic numbers it was computed for
NoResult == [at |-> 0 - 1, of |-> <<>>]
ResultFor(positions0, numbers) == [at |-> positions0, of |-> numbers]

\* the Atoms objects of the caller: one or two atoms, one coordinate
Species == {<<1>>, <<8>>, <<1, 1>>}
Placements == 0..MaxX

\* the log the program leaves: with energy and forces, with a convergence
\* failure, without either, or none at all
Logs == {"result", "failure", "unparsed", "missing"}

\* Gaussian.generate_header(aggression) of a calculator without a checkpoint
generate_header(aggression, runs) ==
    IF aggression = 0
    THEN [err |-> "", params |-> IF runs > 0 THEN <<"guess=read">> ELSE <<>>]
    ELSE IF aggression = 1
    THEN [err |-> "", params |-> <<"scf=qc">>]
    ELSE [err |-> "GaussDriverError", params |-> <<>>]

\* Gaussian.read(cwd) of a log
read(log, positions0, numbers) ==
    IF log = "missing" THEN [err |-> "IOError", none |-> FALSE, ret |-> NoResult]
    ELSE IF log = "failure" THEN [err |-> "", none |-> TRUE, ret |-> NoResult]
    ELSE IF log = "unparsed"
    THEN [err |-> "GaussDriverError", none |-> FALSE, ret |-> NoResult]
    ELSE [err |-> "", none |-> FALSE, ret |-> ResultFor(positions0, numbers)]

\* "if ag > self.max_aggression" that gives up one level early
GivesUp_early(ag, max_aggression) == ag >= max_aggression
\* "if ag > self.max_aggression" at the head of the loop of calculate
GivesUp(ag, max_aggression) == ag > max_aggression

\* the tests of Gaussian.update(atoms)
AtomsChanged(g) ==
    \/ g.runs < 1
    \/ Len(g.numbers) # Len(g.atoms.numbers)
    \/ g.numbers # g.atoms.numbers
PositionsChanged(g) == g.positions # g.atoms.positions
\* Gaussian.update(atoms) up to the head of the loop of calculate
Gaussian_update(g) ==
    IF AtomsChanged(g)
    THEN [g EXCEPT !.stage = "running", !.numbers = g.atoms.numbers, !.runs = 0,
                   !.converged = FALSE, !.positions = g.atoms.positions,
                   !.ag = 0, !.logs = <<>>, !.headers = <<>>]
    ELSE IF PositionsChanged(g)
    THEN [g EXCEPT !.stage = "running", !.positions = g.atoms.positions,
                   !.ag = 0, !.logs = <<>>, !.headers = <<>>]
    ELSE g

\* what get_potential_energy and get_forces return
Got(g) == IF g.op = "get_forces" THEN g.forces ELSE g.e
GetReturns(g) ==
    [g EXCEPT !.stage = "ready", !.outcome = "returned", !.ret = Got(g),
              !.at = g.atoms.positions]
GetRaises(g, err, msg) ==
    [g EXCEPT !.stage = "ready", !.outcome = err, !.msg = msg, !.ret = NoResult,
              !.at = g.atoms.positions]

\* Gaussian(): the calculator as constructed, and the Atoms of the caller
GaussianCreated ==
    /\ gau.stage = "idle"
    /\ \E z \in Species : \E p \in Placements :
        gau' = [stage |-> "ready", max_aggression |-> 1, runs |-> 0,
                numbers |-> <<>>, positions |-> 0 - 1, converged |-> FALSE,
                e |-> NoResult, forces |-> NoResult,
                atoms |-> [numbers |-> z, positions |-> p],
                op |-> "", ag |-> 0, logs |-> <<>>, headers |-> <<>>,
                outcome |-> "", msg |-> "", ret |-> NoResult, at |-> 0 - 1]
    /\ UNCHANGED <<line, parsed, kind, zmtatoms, var_names, zvars, coords, dims,
                   vectors, positions, cx, call, metric, mcall, df, bg, mt, opt, cos>>

\* the caller moves the atoms or takes other atoms between two calls
AtomsSet ==
    /\ gau.stage = "ready"
    /\ \E z \in Species : \E p \in Placements :
        /\ [numbers |-> z, positions |-> p] # gau.atoms
        /\ gau' = [gau EXCEPT !.atoms = [numbers |-> z, positions |-> p]]
    /\ UNCHANGED <<line, parsed, kind, zmtatoms, var_names, zvars, coords, dims,
                   vectors, positions, cx, call, metric, mcall, df, bg, mt, opt, cos>>

\* get_potential_energy(atoms) or get_forces(atoms) is called: update, and
\* the return at once when update finds nothing changed
GetCalled ==
    /\ gau.stage = "ready"
    /\ gau.runs < MaxRuns
    /\ \E op \in {"get_potential_energy", "get_forces"} :
        \E g \in {Gaussian_update([gau EXCEPT !.op = op, !.outcome = "", !.msg = "",
                                              !.ret = NoResult, !.logs = <<>>,
                                              !.headers = <<>>])} :
            gau' = IF g.stage = "running" THEN g ELSE GetReturns(g)
    /\ UNCHANGED <<line, parsed, kind, zmtatoms, var_names, zvars, coords, dims,
                   vectors, positions, cx, call, metric, mcall, df, bg, mt, opt, cos>>

\* one pass of the loop of calculate: the header, the run of the program at
\* the level ag, the reading of its log
GaussRuns ==
    /\ gau.stage = "running"
    /\ ~GivesUp(gau.ag, gau.max_aggression)
    /\ \E h \in {generate_header(gau.ag, gau.runs)} :
        IF h.err # ""
        THEN gau' = GetRaises(gau, h.err, "Unsupported aggression level")
        ELSE \E log \in Logs :
            \E r \in {read(log, gau.atoms.positions, gau.atoms.numbers)} :
            \E g \in {[gau EXCEPT !.logs = Append(@, log),
                                  !.headers = Append(@, [ag |-> gau.ag, params |-> h.params])]} :
                gau' = IF r.err # "" THEN GetRaises(g, r.err, "File not parsed")
                       ELSE IF r.none THEN [g EXCEPT !.ag = @ + 1]
                       ELSE GetReturns([g EXCEPT !.ag = @ + 1, !.e = r.ret,
                                                 !.forces = r.ret, !.converged = TRUE,
                                                 !.runs = @ + 1])
    /\ UNCHANGED <<line, parsed, kind, zmtatoms, var_names, zvars, coords, dims,
                   vectors, positions, cx, call, metric, mcall, df, bg, mt, opt, cos>>

\* the loop of calculate finds ag above max_aggression
GaussGivesUp ==
    /\ gau.stage = "running"
    /\ GivesUp(gau.ag, gau.max_aggression)
    /\ gau' = GetRaises(gau, "GaussDriverError", "Unable to converge SCF")
    /\ UNCHANGED <<line, parsed, kind, zmtatoms, var_names, zvars, coords, dims,
                   vectors, positions, cx, call, metric, mcall, df, bg, mt, opt, cos>>

NextGauss == GaussianCreated \/ AtomsSet \/ GetCalled \/ GaussRuns \/ GaussGivesUp

SpecGauss == Init /\ [][NextGauss]_vars

-----------------------------------------------------------------------------
(* Properties *)

\* the whitespace-separated fields of a line, read off its characters
RECURSIVE FieldsOf(_, _, _)
FieldsOf(s, i, cur) ==
    IF i > Len(s) THEN IF cur = <<>> THEN <<>> ELSE <<cur>>
    ELSE IF s[i] \in {" ", "\t", "\n"}
         THEN (IF cur = <<>> THEN <<>> ELSE <<cur>>) \o FieldsOf(s, i + 1, <<>>)
         ELSE FieldsOf(s, i + 1, Append(cur, s[i]))
NFields(s) == Len(FieldsOf(s, 1, <<>>))

\* the tokens a line has at its distance, angle and dihedral places
ValueTokens(s) == {FieldsOf(s, 1, <<>>)[i] : i \in {3, 5, 7} \cap 1..NFields(s)}
\* a token that is a reference to a variable, not a number
IsReference(tok) ==
    tok[1] \notin Range(Digits) /\ ~(Len(tok) > 1 /\ tok[1] \in {"+", "-"} /\ tok[2] \in Range(Digits))
Unsigned(tok) == IF tok[1] = "-" THEN SubSeq(tok, 2, Len(tok)) ELSE tok
DeclaredNames(mol_text) == {mol_text.vars[i].name : i \in DOMAIN mol_text.vars}
\* the references of the text's atom lines to a variable its variable section lacks
UndefinedRefs(mol_text) ==
    {tok \in UNION {ValueTokens(mol_text.lines[i]) : i \in DOMAIN mol_text.lines} :
        IsReference(tok) /\ Unsigned(tok) \notin DeclaredNames(mol_text)}

\* C1 (as claimed): after set_internals(x) with len(x) = dims on a ZMatrix, an
\* XYZ or a composite, the call has returned and get_internals() is x.
C1_RoundTripAllVariants ==
    (call.op \in {"set_internals", "Complex.set_internals"} /\ Len(call.arg) = dims)
        => (call.outcome = "" /\ get_internals(Self) = call.arg)

\* C1, the part the code keeps: the round trip on ZMatrix and XYZ objects.
C1_RoundTripConcrete ==
    (call.op = "set_internals" /\ Len(call.arg) = dims)
        => (call.outcome = "" /\ get_internals(Self) = call.arg)

\* C2: in every state of a constructed CoordSys, dims is the length of the
\* stored internal coordinate vector.
C2_DimsIsLength == Constructed => dims = Len(coords)

C2_Witness ==
    /\ Constructed
    /\ kind = "ZMatrix"
    /\ call.op = "set_internals"
    /\ call.outcome = ""
    /\ coords = call.arg
    /\ dims = Len(call.arg)

\* C3: a set_internals(x) with len(x) # dims raises the assertion error (the
\* DimensionError), and leaves the internal vector and the variable table as
\* they were.
C3_WrongLengthFailsFirst ==
    [][(call'.op = "set_internals" /\ Len(call'.arg) # dims)
          => (call'.outcome = "AssertionError" /\ coords' = coords /\ zvars' = zvars)]_vars

C3_Witness ==
    /\ kind = "ZMatrix"
    /\ call.op = "set_internals"
    /\ Len(call.arg) # dims
    /\ call.outcome = "AssertionError"
    /\ Len(coords) = dims

\* C4: a lower or raises on the metric context fails (No_metric has no such
\* method: the UninitializedMetricError) as long as setup_metric has not been
\* called, and succeeds once it has.
C4_MetricNeedsSetup ==
    mcall.op \in {"lower", "raises"}
        => IF mcall.setup THEN mcall.outcome = "" ELSE mcall.outcome = "AttributeError"

C4_Witness ==
    /\ mcall.op \in {"lower", "raises"}
    /\ ~mcall.setup
    /\ mcall.outcome = "AttributeError"
    /\ mcall.arg[1] # <<>>

\* C5: a z-matrix text with a reference, signed or not, to a variable that its
\* variable section lacks fails construction with ZMatrixException (the
\* CompletenessError), and no atom has been given a position by then.
C5_UndefinedVariableFails ==
    (call.op = "ZMatrix" /\ UndefinedRefs(call.arg) # {})
        => /\ call.outcome = "ZMatrixException"
           /\ \A i \in DOMAIN vectors : vectors[i] = Unset
           /\ positions = <<>>
           /\ ~Constructed

C5_Witness ==
    /\ call.op = "ZMatrix"
    /\ call.arg.vars # <<>>
    /\ \E tok \in UndefinedRefs(call.arg) : tok[1] = "-"
    /\ Len(zmtatoms) = Len(call.arg.lines)
    /\ call.outcome = "ZMatrixException"

\* a name that starts with x or X
StartsWithX(name) == name # <<>> /\ name[1] \in {"x", "X"}
\* C6 (as claimed): a z-matrix of N atoms, exactly one of them named X2 and no
\* other name starting with X, has N - 1 rows in get_cartesians().
C6_X2IsDummy ==
    (/\ kind = "ZMatrix"
     /\ call.op = "get_cartesians"
     /\ call.outcome = ""
     /\ Cardinality({i \in DOMAIN zmtatoms : StartsWithX(zmtatoms[i].name)}) = 1
     /\ \E i \in DOMAIN zmtatoms : zmtatoms[i].name = <<"X", "2">>)
        => Len(call.ret) = Len(zmtatoms) - 1

\* the atoms that are dummies: named x or xx in any case
DummyName(name) == Lower(name) = <<"x">> \/ Lower(name) = <<"x", "x">>
\* the indices of the atoms that are no dummies, in declaration order
RECURSIVE RealAtoms(_, _)
RealAtoms(atoms, k) ==
    IF k = 0 THEN <<>>
    ELSE RealAtoms(atoms, k - 1) \o (IF DummyName(atoms[k].name) THEN <<>> ELSE <<k>>)

\* C7: get_cartesians() returns the positions of the atoms that are no dummies,
\* one row each in declaration order; every atom, dummy or not, has been
\* given its position, and an atom placed from references a, b, c is placed
\* from the positions those atoms were given in this pass.
C7_RowsAreRealAtoms ==
    (kind = "ZMatrix" /\ call.op = "get_cartesians" /\ call.outcome = "")
        => /\ Len(call.ret) = Len(RealAtoms(zmtatoms, Len(zmtatoms)))
           /\ \A j \in DOMAIN call.ret :
                call.ret[j] = vectors[RealAtoms(zmtatoms, Len(zmtatoms))[j]]
           /\ \A i \in DOMAIN zmtatoms :
                /\ vectors[i] # Unset
                /\ vectors[i].k = "placed"
                    => /\ vectors[i].a = vectors[zmtatoms[i].a]
                       /\ vectors[i].b = vectors[zmtatoms[i].b]
                       /\ zmtatoms[i].c # NoneIx => vectors[i].c = vectors[zmtatoms[i].c]

C7_Witness ==
    /\ kind = "ZMatrix"
    /\ call.op = "get_cartesians"
    /\ call.outcome = ""
    /\ Len(call.ret) < Len(zmtatoms)
    /\ \E i \in DOMAIN zmtatoms :
        /\ vectors[i].k = "placed"
        /\ DummyName(zmtatoms[zmtatoms[i].a].name)
        /\ ~DummyName(zmtatoms[i].name)
        /\ \E j \in DOMAIN call.ret : call.ret[j] = vectors[i]

\* a value field that the parse has set
IsSet(f) == f.t # "none"
\* C8 (as claimed): an accepted line of 1, 3, 5 or 7 fields has exactly the
\* fields of that variant set, and c is set only with b, b only with a.
C8_FieldCountDecides ==
    (Parsed /\ parsed.ok)
        => /\ NFields(line) = 1 =>
                /\ parsed.a = NoneIx /\ parsed.b = NoneIx /\ parsed.c = NoneIx
                /\ ~IsSet(parsed.dst) /\ ~IsSet(parsed.ang) /\ ~IsSet(parsed.dih)
           /\ NFields(line) = 3 =>
                /\ parsed.a # NoneIx /\ parsed.b = NoneIx /\ parsed.c = NoneIx
                /\ IsSet(parsed.dst) /\ ~IsSet(parsed.ang) /\ ~IsSet(parsed.dih)
           /\ NFields(line) = 5 =>
                /\ parsed.a # NoneIx /\ parsed.b # NoneIx /\ parsed.c = NoneIx
                /\ IsSet(parsed.dst) /\ IsSet(parsed.ang) /\ ~IsSet(parsed.dih)
           /\ NFields(line) = 7 =>
                /\ parsed.a # NoneIx /\ parsed.b # NoneIx /\ parsed.c # NoneIx
                /\ IsSet(parsed.dst) /\ IsSet(parsed.ang) /\ IsSet(parsed.dih)
           /\ parsed.c # NoneIx => parsed.b # NoneIx
           /\ parsed.b # NoneIx => parsed.a # NoneIx

\* C9 (as claimed): a line that has not exactly 1, 3, 5 or 7 fields is not
\* accepted: ZMTAtom raises its exception (the ParseError).
C9_OtherFieldCountsFail ==
    (Parsed /\ NFields(line) \notin {1, 3, 5, 7})
        => (~parsed.ok /\ parsed.err = "Exception")

\* the value of a field of an atom line under the variable table: a number as
\* it is, a reference as the table's value of its name, negated under a "-"
Resolved(table, f) ==
    IF f.t = "num" THEN f.v
    ELSE IF f.tok[1] = "-"
         THEN Val(0 - table[SubSeq(f.tok, 2, Len(f.tok))].n, table[SubSeq(f.tok, 2, Len(f.tok))].e)
         ELSE table[f.tok]

\* C10: the build-up uses a literal distance, angle or dihedral as written and
\* a reference as sign * table[name]; the names of the table carry no sign.
C10_ResolvedValuesUsed ==
    (/\ kind = "ZMatrix"
     /\ call.op \in {"ZMatrix", "get_cartesians"}
     /\ call.outcome = "")
        => /\ \A name \in DOMAIN zvars : name[1] # "-"
           /\ \A i \in DOMAIN zmtatoms :
                /\ vectors[i].k = "x" => vectors[i].dst = Resolved(zvars, zmtatoms[i].dst)
                /\ vectors[i].k = "placed" =>
                    /\ vectors[i].dst = Resolved(zvars, zmtatoms[i].dst)
                    /\ vectors[i].ang = Resolved(zvars, zmtatoms[i].ang)
                    /\ zmtatoms[i].c # NoneIx
                        => vectors[i].dih = Resolved(zvars, zmtatoms[i].dih)

C10_Witness ==
    /\ kind = "ZMatrix"
    /\ call.op = "get_cartesians"
    /\ call.outcome = ""
    /\ \E i \in DOMAIN zmtatoms :
        /\ vectors[i].k = "placed"
        /\ zmtatoms[i].dst.t = "num"
        /\ vectors[i].dst = zmtatoms[i].dst.v
        /\ zmtatoms[i].ang.t = "str"
        /\ zmtatoms[i].ang.tok[1] = "-"
        /\ vectors[i].ang.n < 0
        /\ vectors[i].ang.n = 0 - zvars[<<"a">>].n

\* the tokens a line has at its angle and dihedral places
AngleTokens(s) == {FieldsOf(s, 1, <<>>)[i] : i \in {5, 7} \cap 1..NFields(s)}
\* the names the text's atom lines use, signed or not, as an angle or a dihedral
AngleNames(mol_text) ==
    {Unsigned(tok) : tok \in {t \in UNION {AngleTokens(mol_text.lines[i]) :
                                              i \in DOMAIN mol_text.lines} : IsReference(t)}}

\* C11 (as claimed): a constructed ZMatrix holds, in the internal vector and
\* in the variable table, every variable that a line uses as angle or dihedral
\* (as name or as -name) converted to radians once, and every other variable
\* as written.
C11_AnglesInRadians ==
    (call.op = "ZMatrix" /\ call.outcome = "")
        => \A i \in DOMAIN var_names :
            /\ coords[i] = (IF var_names[i] \in AngleNames(call.arg)
                            THEN DegToRad(call.arg.vars[i].value)
                            ELSE call.arg.vars[i].value)
            /\ zvars[var_names[i]] = coords[i]

\* the reference indices a line has at its places 2, 4 and 6, read off the text
RefTokens(s) == {FieldsOf(s, 1, <<>>)[j] : j \in {2, 4, 6} \cap 1..NFields(s)}
\* the text has a line whose reference is no earlier line: the line itself, a
\* later one, 0, or an index beyond the last line
BadRefs(mol_text) ==
    \E i \in DOMAIN mol_text.lines : \E tok \in RefTokens(mol_text.lines[i]) :
        /\ \A k \in DOMAIN tok : tok[k] \in Range(Digits)
        /\ DigitsVal(tok) \notin 1..(i - 1)

\* C12: in a constructed ZMatrix the references a, b, c of the atom at
\* position i lie in 1..i-1, and a text with a reference to the line itself,
\* to a later line, to 0 or beyond the last line ends construction with an
\* exception.
C12_ReferencesEarlier ==
    /\ (Constructed /\ kind = "ZMatrix")
        => \A i \in DOMAIN zmtatoms :
            \A ref \in {zmtatoms[i].a, zmtatoms[i].b, zmtatoms[i].c} \ {NoneIx} :
                ref \in 1..(i - 1)
    /\ (call.op = "ZMatrix" /\ BadRefs(call.arg))
        => (call.outcome # "" /\ ~Constructed)

C12_Witness ==
    /\ call.op = "ZMatrix"
    /\ BadRefs(call.arg)
    /\ UndefinedRefs(call.arg) = {}
    /\ call.arg.vars # <<>>
    /\ Len(call.arg.lines) = 4
    /\ call.outcome = "AttributeError"
    /\ ~Constructed

\* the variable table read off the internal vector alone
TableOfInternals(names, x) ==
    [name \in Range(names) |-> x[CHOOSE i \in DOMAIN names : names[i] = name]]

\* C13: what get_cartesians() returns is what one pass over the atom lines
\* gives from the current internal coordinates alone, with no atom holding a
\* position of an earlier pass, whatever calls came before.
C13_CartesiansOfInternalsOnly ==
    (kind = "ZMatrix" /\ call.op = "get_cartesians")
        => /\ call.outcome = ""
           /\ call.ret = ZMatrix_get_cartesians(zmtatoms, TableOfInternals(var_names, coords),
                                                [i \in DOMAIN zmtatoms |-> Unset]).xyz

C13_Witness ==
    /\ kind = "ZMatrix"
    /\ call.op = "get_cartesians"
    /\ call.outcome = ""
    /\ Len(zmtatoms) >= 3
    /\ Len(coords) = 2
    /\ coords[1].n # 10
    /\ coords[2] # coords[1]
    /\ \E j \in DOMAIN call.ret : call.ret[j].k = "placed"

\* C14 (as claimed): the composite's set_internals(x) hands every fragment its
\* slice of x, so that the fragments' internal vectors, one after the other,
\* are x; here the composite has the object under test as its one fragment,
\* whose slice is all of x.
C14_FragmentsHoldSlices ==
    call.op = "Complex.set_internals"
        => (call.outcome = "" /\ get_internals(Self) = SubSeq(call.arg, 1, dims))

\* C15 (as claimed): copy() on a ZMatrix or an XYZ returns a new object, which
\* holds new_coords if given and the original's internals otherwise, while the
\* original keeps its internal coordinates.
C15_CopyReturnsIndependentObject ==
    call.op = "copy"
        => /\ call.outcome = ""
           /\ call.ret = (IF call.arg.given THEN call.arg.x ELSE coords)

\* x with component k displaced by d
Displaced(x, k, d) == [x EXCEPT ![k] = @ + d]
\* the quotient q is the value num / den
IsQuotient(q, num, den) == q.den # 0 /\ den # 0 /\ q.num * den = num * q.den
\* the finite difference of output i of g0 with respect to input k at x, as
\* the direction has it: a pair <<numerator, denominator>>
Difference(g0, x, d, direction, i, k) ==
    IF direction = "central"
    THEN <<Apply(g0, Displaced(x, k, d))[i] - Apply(g0, Displaced(x, k, 0 - d))[i], 2 * d>>
    ELSE IF direction = "forward"
    THEN <<Apply(g0, Displaced(x, k, d))[i] - Apply(g0, x)[i], d>>
    ELSE <<Apply(g0, Displaced(x, k, 0 - d))[i] - Apply(g0, x)[i], 0 - d>>

\* C16 (as claimed): for a function of n inputs and m outputs derivatef
\* returns a matrix of m rows of n entries whose entry [i][j] is the finite
\* difference of output i with respect to input j.
C16_JacobianIsOutputsByInputs ==
    df.stage = "done"
        => /\ Len(df.deriv) = Len(Apply(df.g0, df.arg))
           /\ \A i \in DOMAIN df.deriv : Len(df.deriv[i]) = Len(df.arg)
           /\ \A i \in DOMAIN df.deriv : \A j \in DOMAIN df.deriv[i] :
                IsQuotient(df.deriv[i][j],
                           Difference(df.g0, df.arg, df.delta0, df.direction, i, j)[1],
                           Difference(df.g0, df.arg, df.delta0, df.direction, i, j)[2])

\* C17: whatever the order in which the evaluations finish, the matrix is the
\* one built from the values of xs in the order of xs, as a sequential map
\* returns them.
C17_AsSequentialMap ==
    df.stage = "done"
        => /\ df.g1 = [j \in DOMAIN df.xs |-> Apply(df.g0, df.xs[j])]
           /\ df.deriv = DerivMatrix(df.direction,
                                     [j \in DOMAIN df.xs |-> Apply(df.g0, df.xs[j])],
                                     df.delta, Len(df.arg))

C17_Witness ==
    /\ df.stage = "done"
    /\ df.direction = "central"
    /\ Len(df.arg) = MaxDim
    /\ \E i \in DOMAIN df.order : df.order[i] < i
    /\ \E k \in DOMAIN df.deriv : \E j \in DOMAIN df.deriv[k] : df.deriv[k][j].num # 0

\* C18: row k of the matrix holds, for the central direction,
\* (g(x + d e_k) - g(x - d e_k)) / (2d) from 2n evaluations, for forward
\* (g(x + d e_k) - g(x)) / d and for backward (g(x - d e_k) - g(x)) / (-d)
\* from n + 1 evaluations each, and the caller's x0 is as it was handed in.
C18_DifferenceQuotients ==
    df.stage = "done"
        => /\ Len(df.xs) = (IF df.direction = "central" THEN 2 * Len(df.arg)
                            ELSE Len(df.arg) + 1)
           /\ Len(df.g1) = Len(df.xs)
           /\ df.x0 = df.arg
           /\ Len(df.deriv) = Len(df.arg)
           /\ \A k \in DOMAIN df.deriv : \A i \in DOMAIN df.deriv[k] :
                IsQuotient(df.deriv[k][i],
                           Difference(df.g0, df.arg, df.delta0, df.direction, i, k)[1],
                           Difference(df.g0, df.arg, df.delta0, df.direction, i, k)[2])

C18_Witness ==
    /\ df.stage = "done"
    /\ df.direction = "backward"
    /\ df.g0 = "g3"
    /\ Len(df.arg) = MaxDim
    /\ df.delta0 = 2
    /\ df.deriv[1][1].den = 0 - 2
    /\ df.deriv[1][1].num # 0

\* A.T * B for two matrices of equally many rows and of three columns
TDot(A, B) ==
    [i \in 1..3 |-> [j \in 1..3 |-> SumOver([r \in DOMAIN A |-> A[r][i] * B[r][j]], Len(A))]]
\* A * B for two matrices of three rows and three columns
Dot3(A, B) ==
    [i \in 1..3 |-> [j \in 1..3 |-> A[i][1] * B[1][j] + A[i][2] * B[2][j] + A[i][3] * B[3][j]]]
Times(k, A) == [i \in 1..3 |-> [j \in 1..3 |-> k * A[i][j]]]

\* C19 (as claimed): for every geometry handed to B_globals, every entry of
\* B_T.T * B_R is zero.
C19_TranslationsOrthogonalToRotations ==
    bg.stage = "done" => TDot(bg.ret.B_T, bg.ret.B_R) = Times(0, eye)

\* C19, the part the code keeps: the geometries handed over as an N x 3 array.
C19_OrthogonalForRows ==
    (bg.stage = "done" /\ bg.shape = "rows")
        => TDot(bg.ret.B_T, bg.ret.B_R) = Times(0, eye)

GramOf(cls, B, G) ==
    IF cls = "Metric" THEN [num |-> mdot(transpose(B), B), den |-> 1]
    ELSE Quot(mdot(transpose(B), Remainder(G, B)), G.Bt_inv.den * G.Br_inv.den)
\* the geometry at the place of mt is degenerate: the rotation matrix
\* B_R.T * B_R (Metric_reduced) or B^T B (Metric) has the determinant 0
Degenerate ==
    /\ mt.stage # "idle"
    /\ \/ mt.cls = "Metric" /\ det(GramOf("Metric", mt.B, NoGlobals).num) = 0
       \/ mt.cls = "Metric_reduced" /\ brtbrm1(pcri(mt.shape, mt.carts)).den = 0
\* the matrix that raises solves with exists and has a determinant other than 0
Regular ==
    /\ mt.stage # "idle"
    /\ mt.cls # "Default"
    /\ ~Degenerate
    /\ det(GramOf(mt.cls, mt.B, Globals(mt.cls, mt.shape, mt.carts)).num) # 0

\* C21 (as claimed): at a degenerate geometry lower and raises of Metric and
\* of Metric_reduced fail with SingularGramMatrixError (the one exception of
\* that meaning the code can raise is LinAlgError), none returns a vector.
C21_DegenerateGeometryFails ==
    Degenerate => mt.lo.err = "LinAlgError"

\* C22: for Default, lower(v, x) is v and raises(lower(v, x), x) is v, and the
\* vectors returned are objects of their own: writing into one of them changes
\* neither the argument v nor the other vector.
C22_DefaultIsIdentityByCopy ==
    (mt.stage # "idle" /\ mt.cls = "Default")
        => /\ mt.lo.err = "" /\ mt.up.err = ""
           /\ mt.v = mt.arg
           /\ mt.ids.lo # mt.ids.v
           /\ mt.target # "lo" => mt.lo.ret = mt.arg
           /\ mt.stage = "raised" => mt.up.ret = mt.arg /\ mt.ids.up \notin {mt.ids.v, mt.ids.lo}
           /\ mt.target = "lo" => mt.up.ret = mt.arg

C22_Witness ==
    /\ mt.stage = "written"
    /\ mt.cls = "Default"
    /\ mt.target = "lo"
    /\ mt.lo.ret # mt.arg
    /\ Len(mt.arg.num) = 2

\* C23: where the matrix B^T B (Metric) or B^T (I - P) B (Metric_reduced) at
\* the place x has a determinant other than zero, raises(lower(v, x), x)
\* returns and is v, both taken with the same Jacobian B.
C23_RaisesUndoesLower ==
    (mt.stage = "raised" /\ Regular)
        => /\ mt.lo.err = "" /\ mt.up.err = ""
           /\ mt.up.ret = mt.arg

C23_Witness ==
    /\ mt.stage = "raised"
    /\ mt.cls = "Metric_reduced"
    /\ Regular
    /\ Len(mt.carts) = 3
    /\ Len(mt.arg.num) = 2
    /\ mt.lo.ret # mt.arg
    /\ mt.lo.ret.den > 1
    /\ mt.up.ret = mt.arg


\* C24 (as claimed): minimize(f, x) returns (xm, fm, stats) with fm the value
\* of f at xm and xm in the shape of x, and the caller's array x is as it was.
C24_MinimizeReturnsValueAtMinimum ==
    (opt.stage = "done" /\ opt.via = "minimize")
        => /\ opt.ret.fm = fg(opt.o.f, opt.o.n, opt.ret.xm).e
           /\ opt.ret.shape = opt.xshape
           /\ opt.x = opt.arg

\* C24, the parts the code keeps: the shape of xm and the caller's array.
C24_ShapeKeptArgumentUntouched ==
    (opt.stage # "idle" /\ opt.via = "minimize")
        => /\ opt.x = opt.arg
           /\ opt.stage = "done" => opt.ret.shape = opt.xshape

\* a step of lbfgs has no component beyond maxstep
Within(dr, maxstep) == dr.den # 0 /\ ~qless(maxstep, maxabs(dr))

\* C30 (as claimed): lbfgs calls fg at most maxiter + 1 times, no step it
\* takes has a component beyond maxstep, and the stats it returns say
\* converged = True.
C30_LbfgsBoundedStepsAndCalls ==
    opt.stage # "idle"
        => /\ opt.o.calls <= opt.o.maxiter + 1
           /\ \A k \in DOMAIN opt.o.steps : Within(opt.o.steps[k], opt.o.maxstep)
           /\ opt.stage = "done" => opt.ret.stats[2] = TRUE

\* C30, the parts the code keeps: the number of calls of fg, the flag
\* returned, and the bound of the steps that are numbers.
C30_CallsBoundedFlagSet ==
    opt.stage # "idle"
        => /\ opt.o.calls <= opt.o.maxiter + 1
           /\ opt.o.calls = opt.o.iteration + 1
           /\ \A k \in DOMAIN opt.o.steps :
                opt.o.steps[k].den # 0 => Within(opt.o.steps[k], opt.o.maxstep)
           /\ opt.stage = "done" => opt.ret.stats[2] = TRUE
           /\ (opt.stage = "loop" /\ opt.o.iteration >= opt.o.maxiter) => opt.o.converged


\* the atom lines of a text: the lines before the first one without a field
AtomLinesOf(lines) ==
    SubSeq(lines, 1,
           IF \E k \in DOMAIN lines : NFields(lines[k]) = 0
           THEN (CHOOSE k \in DOMAIN lines :
                    /\ NFields(lines[k]) = 0
                    /\ \A j \in 1..(k - 1) : NFields(lines[j]) # 0) - 1
           ELSE Len(lines))
\* the references to variables on the atom lines, in the order of the text
RECURSIVE RefsOf(_)
RefsOf(lines) ==
    IF lines = <<>> THEN <<>>
    ELSE RefsOf(SubSeq(lines, 1, Len(lines) - 1))
         \o [k \in 1..((NFields(lines[Len(lines)]) - 1) \div 2) |->
                FieldsOf(lines[Len(lines)], 1, <<>>)[2 * k + 1]]
RefNames(lines) == {Unsigned(RefsOf(lines)[i]) : i \in DOMAIN RefsOf(lines)}
Read == cos.stage = "done" /\ cos.out.err = ""

C29_NumbersTellReferencesApart ==
    Read =>
        /\ Len(cos.out.ret[3]) = Len(RefsOf(AtomLinesOf(cos.lines)))
        /\ \A i, j \in DOMAIN cos.out.ret[3] :
            cos.out.ret[3][i] = cos.out.ret[3][j]
                => RefsOf(AtomLinesOf(cos.lines))[i] = RefsOf(AtomLinesOf(cos.lines))[j]
\* the numbers differ in every other case: the same number is given to two
\* different references only when both name the first variable
C29_OnlyTheFirstVariableCollides ==
    Read =>
        /\ Len(cos.out.ret[3]) = Len(RefsOf(AtomLinesOf(cos.lines)))
        /\ \A i, j \in DOMAIN cos.out.ret[3] :
            /\ cos.out.ret[3][i] = cos.out.ret[3][j]
            /\ RefsOf(AtomLinesOf(cos.lines))[i] # RefsOf(AtomLinesOf(cos.lines))[j]
            => /\ cos.out.ret[3][i] = 1
               /\ Unsigned(RefsOf(AtomLinesOf(cos.lines))[i])
                    = Unsigned(RefsOf(AtomLinesOf(cos.lines))[1])
               /\ Unsigned(RefsOf(AtomLinesOf(cos.lines))[j])
                    = Unsigned(RefsOf(AtomLinesOf(cos.lines))[1])


Succeeded(g) ==
    /\ g.stage = "ready" /\ g.outcome = "returned"
    /\ g.logs # <<>> /\ g.logs[Len(g.logs)] = "result"
GaveUp(g) ==
    g.stage = "ready" /\ g.outcome = "GaussDriverError" /\ g.msg = "Unable to converge SCF"
CalculateRuns ==
    gau.stage # "idle" =>
        /\ Len(gau.headers) = Len(gau.logs)
        /\ Len(gau.headers) <= gau.max_aggression + 1
        /\ \A k \in DOMAIN gau.headers : gau.headers[k].ag = k - 1
        /\ \A k \in DOMAIN gau.logs :
            /\ k < Len(gau.logs) => gau.logs[k] = "failure"
            /\ gau.logs[k] = "result" => Succeeded(gau)
        /\ GaveUp(gau) <=> /\ gau.stage = "ready"
                           /\ Len(gau.logs) = gau.max_aggression + 1
                           /\ \A k \in DOMAIN gau.logs : gau.logs[k] = "failure"
CalculateCounts ==
    gau.stage # "idle" =>
        /\ gau'.runs > gau.runs => gau'.runs = gau.runs + 1 /\ Succeeded(gau')
        /\ gau'.converged /\ ~gau.converged => Succeeded(gau')
        /\ gau.stage = "running" /\ Succeeded(gau')
            => gau'.runs = gau.runs + 1 /\ gau'.converged
        /\ gau.stage = "running" /\ ~Succeeded(gau')
            => gau'.runs = gau.runs /\ gau'.converged = gau.converged
\* C26: Gaussian.calculate runs the program at the levels 0, 1, ...,
\* max_aggression in this order, once per level, stops at the first run whose
\* log gives a result, and raises GaussDriverError after max_aggression + 1
\* runs that did not converge; runs grows by exactly one, and converged is
\* set, only when a run gave a result.
C26_AggressionLevelsInOrder == [](CalculateRuns) /\ [][CalculateCounts]_vars
C26_Witness ==
    /\ Succeeded(gau)
    /\ gau.logs = <<"failure", "result">>
    /\ gau.headers = <<[ag |-> 0, params |-> <<"guess=read">>],
                       [ag |-> 1, params |-> <<"scf=qc">>]>>
    /\ gau.runs = 2

\* C28: get_potential_energy(atoms) and get_forces(atoms) never return a
\* result computed for other positions than the ones atoms has at the call,
\* also not after a calculate for these positions raised GaussDriverError.
C28_NoResultOfOtherPositions ==
    gau.stage = "ready" /\ gau.outcome = "returned" => gau.ret.at = gau.at
\* a result of a call that ran the program is for the positions of the call
C28_FreshWhenCalculated ==
    gau.stage = "ready" /\ gau.outcome = "returned" /\ gau.logs # <<>>
        => gau.ret.at = gau.at


\* C27: after ZMatrix.set_internals(x) has returned, the positions of the
\* wrapped Atoms object are the Cartesians that get_cartesians() gives for x:
\* the table of variables holds x before the Cartesians for the Atoms are built.
C27_PositionsFollowInternals ==
    (kind = "ZMatrix" /\ call.op = "set_internals" /\ call.outcome = "")
        => /\ get_cartesians(kind, Self).err = ""
           /\ positions = make_like_atoms(kind, get_cartesians(kind, Self).xyz)
\* the positions are the Cartesians of the table as it was before the call:
\* a second set_internals(x) with the same x brings them up to x
C27_PositionsFollowOnRepeat ==
    [][(kind = "ZMatrix" /\ call.op = "set_internals" /\ call.outcome = ""
        /\ call'.op = "set_internals" /\ call'.outcome = "" /\ call'.arg = call.arg)
       => positions' = make_like_atoms(kind, get_cartesians(kind, Self).xyz)]_vars

=============================================================================
